---- MODULE Spec2Model ----
(***************************************************************************)
(* State-machine model of the PvP 1v1 manager widget (App): roster, queue, *)
(* pairing engine (pickMatchFromQueue), match lifecycle, and the mirroring *)
(* of the state across browser tabs through localStorage and a             *)
(* BroadcastChannel; and of the bracket of the tournament page             *)
(* (TournamentPage): generateRound1, setResult, buildNextRound.            *)
(*                                                                         *)
(* Conventions.  null is modelled by 0 for numbers (lastPlayedAt,          *)
(* resolvingMatchAt), by NoMatch for a Match and by "null" for dpsType.    *)
(* Player ids are numbers (uid() yields a fresh opaque string).  Strings   *)
(* that the code trims or lower-cases (nick) are sequences of characters.  *)
(* Date.now() is the variable now; it never decreases and may return the   *)
(* same value to two consecutive calls.                                    *)
(***************************************************************************)
EXTENDS Integers, Sequences, FiniteSets, TLC

VARIABLES
    tab,    \* per browser tab: the React state of App
    ls,     \* localStorage[LS_KEY]
    now,    \* Date.now()
    nextId, \* the next id uid() hands out
    last,   \* history: the last handler that ran
    used,   \* history: how many matches were proposed, how many roster edits made
    pk,     \* inputs and output of a direct call of pickMatchFromQueue
    tp,     \* the React state of TournamentPage
    nf      \* the React state of NewFightPage

vars == <<tab, ls, now, nextId, last, used, pk, tp, nf>>

\* ------------------------------------------------------------------ bounds
MaxPlayers == 4
MaxResults == 2
MaxProposed == 2
MaxEdits == 1
MaxNow == 2
MaxInbox == 1
MaxPickPlayers == 3
MaxPickLen == 3
MaxScorePlayers == 3
MaxRounds == 15
MaxTabsPlayers == 2
MaxTabsProposed == 1
MaxContestants == 5
MaxBracketContestants == 3
MaxScreenPlayers == 10
MaxScreenProposed == 3
MaxFighters == 4
MaxFormEdits == 1

\* ------------------------------------------------------- program constants
HistoryCap == 10
ScreenCap == 4
RowCap == 4
RecentPenalty == 35
RecencyWindow == 60000
RecencyPenalty == 4
RoleMixWeight == 14
DpsVarietyWeight == 8
WeaponVarietyWeight == 6
RandomSpan == 6
RandomATopNMin == 2
RandomATopNDefault == 6
RecentOppCountMin == 1
RecentOppCountDefault == 3

TabIds == {1, 2}

NoMatch == [aId |-> 0, bId |-> 0, createdAt |-> 0]

DPS_RANGED_WEAPONS == {"Sombrilla", "Abanico"}
DPS_MELEE_WEAPONS ==
    {"Espada estrategica", "Lanza sin nombre", "Lanza rompe vientos",
     "Espada sin nombres", "Duales", "Dardo"}
Placeholder == "-"

\* ----------------------------------------------------------------- helpers
Max(a, b) == IF a >= b THEN a ELSE b
Min(a, b) == IF a <= b THEN a ELSE b

Range(s) == {s[i] : i \in 1..Len(s)}

\* arr.slice(0, n)
Take(s, n) == SubSeq(s, 1, Min(n, Len(s)))

\* a slice that keeps the whole array
KeepAll(s, n) == s

\* arr.slice(-n)
LastN(s, n) == SubSeq(s, Max(1, Len(s) - n + 1), Len(s))

\* a clampHistory that keeps everything
clampHistoryLoose(arr, max) == arr

clampHistory(arr, max) == Take(arr, max)

\* ------------------------------------------------------------------ nick
\* String.prototype.trim on a sequence of characters
RECURSIVE TrimLeft(_)
TrimLeft(s) ==
    IF s # <<>> /\ Head(s) = " " THEN TrimLeft(Tail(s)) ELSE s

RECURSIVE TrimRight(_)
TrimRight(s) ==
    IF s # <<>> /\ s[Len(s)] = " " THEN TrimRight(SubSeq(s, 1, Len(s) - 1)) ELSE s

Trim(s) == TrimRight(TrimLeft(s))

LowerChar(c) ==
    CASE c = "A" -> "a"
      [] c = "B" -> "b"
      [] c = "C" -> "c"
      [] c = "D" -> "d"
      [] OTHER -> c

ToLowerCase(s) == [i \in 1..Len(s) |-> LowerChar(s[i])]

\* ------------------------------------------------------ pairing: scoring
\* playersById: a Map filled by players.forEach(set); the last entry wins
HasPlayer(players, id) == \E i \in 1..Len(players) : players[i].id = id

PlayerById(players, id) ==
    LET idx == {i \in 1..Len(players) : players[i].id = id}
    IN  players[CHOOSE i \in idx : \A j \in idx : j <= i]

\* a recentlyPlayed that looks at the whole history
recentlyPlayedEver(p, oppId, recentCount) == oppId \in Range(p.lastOpponents)

recentlyPlayed(p, oppId, recentCount) ==
    oppId \in Range(Take(p.lastOpponents, recentCount))

\* a roleMixScore that does not tell the roles apart
roleMixScoreFlat(a, b) == 2

\* a roleMixScore that goes by the levels
roleMixScoreByLevel(a, b) == IF a.level # b.level THEN 6 ELSE 2

roleMixScore(a, b) == IF a.role # b.role THEN 6 ELSE 2

dpsVarietyScore(a, b) ==
    IF a.role # "DPS" \/ b.role # "DPS" THEN 0
    ELSE IF a.dpsType # "null" /\ b.dpsType # "null" /\ a.dpsType # b.dpsType
         THEN 3
         ELSE 1

weaponVarietyScore(a, b) ==
    IF a.role # "DPS" \/ b.role # "DPS" THEN 0
    ELSE LET aSet == {a.weapon1, a.weapon2}
             bSet == {b.weapon1, b.weapon2}
             diff == Cardinality(aSet \ bSet) + Cardinality(bSet \ aSet)
         IN  IF diff >= 3 THEN 3 ELSE diff

\* a.lastPlayedAt && now - a.lastPlayedAt < 60 * 1000 ? 4 : 0
RecencyOf(p, t) ==
    IF p.lastPlayedAt # 0 /\ t - p.lastPlayedAt < RecencyWindow
    THEN RecencyPenalty ELSE 0

\* a score without the recent-opponent penalty
BaseScoreForgetful(a, c, avoidRecent, recentOppCount, t) ==
    roleMixScore(a, c) * RoleMixWeight
    + dpsVarietyScore(a, c) * DpsVarietyWeight
    + weaponVarietyScore(a, c) * WeaponVarietyWeight
    - (RecencyOf(a, t) + RecencyOf(c, t))

\* The score of candidate c against a without its Math.random() * 6 term.
BaseScore(a, c, avoidRecent, recentOppCount, t) ==
    roleMixScore(a, c) * RoleMixWeight
    + dpsVarietyScore(a, c) * DpsVarietyWeight
    + weaponVarietyScore(a, c) * WeaponVarietyWeight
    - (IF avoidRecent /\ recentlyPlayed(a, c.id, recentOppCount)
       THEN RecentPenalty ELSE 0)
    - (RecencyOf(a, t) + RecencyOf(c, t))

\* Math.random() * 6 lies in [0, 6).  Scores are kept in half points and the
\* draws are the half-point values 0 and 5.5: the base scores are integers,
\* so a candidate can come out best for some draws in [0, 6) exactly when it
\* does with its own draw at 5.5 and every other draw at 0.
RandomDraws == {0, 2 * RandomSpan - 1}

\* the loop of lines 274-296: the first candidate with the highest score
RECURSIVE BestFrom(_, _, _, _)
BestFrom(scores, i, best, bestScore) ==
    IF i > Len(scores) THEN best
    ELSE IF scores[i] > bestScore
         THEN BestFrom(scores, i + 1, i, scores[i])
         ELSE BestFrom(scores, i + 1, best, bestScore)

\* ------------------------------------------------- pickMatchFromQueue
\* an activeQueue that keeps the inactive players
ActiveQueueAnyone(queue, players) ==
    LET known == SelectSeq(queue, LAMBDA id : HasPlayer(players, id))
    IN  [i \in 1..Len(known) |-> PlayerById(players, known[i])]

ActiveQueue(queue, players) ==
    LET known == SelectSeq(queue, LAMBDA id : HasPlayer(players, id))
        got == [i \in 1..Len(known) |-> PlayerById(players, known[i])]
    IN  SelectSeq(got, LAMBDA p : p.active)

\* a topN that spans the whole active queue
TopNWhole(activeQueue, randomATopN) == Len(activeQueue)

TopN(activeQueue, randomATopN) == Max(2, Min(Len(activeQueue), randomATopN))

\* the players side A can be, by Math.random()
\* a side A that is always drawn at random, whatever randomA says
SideAChoicesAlwaysRandom(activeQueue, randomA, randomATopN) ==
    {activeQueue[i] : i \in 1..TopN(activeQueue, randomATopN)}

SideAChoices(activeQueue, randomA, randomATopN) ==
    IF randomA
    THEN {activeQueue[i] : i \in 1..TopN(activeQueue, randomATopN)}
    ELSE {activeQueue[1]}

\* candidates that still hold side A
CandidatesWithA(activeQueue, a) == activeQueue

Candidates(activeQueue, a) == SelectSeq(activeQueue, LAMBDA p : p.id # a.id)

\* the players side B can be in RANDOM mode
RandomPool(a, candidates, avoidRecent, recentOppCount) ==
    LET pool == IF avoidRecent
                THEN SelectSeq(candidates,
                        LAMBDA c : ~recentlyPlayed(a, c.id, recentOppCount))
                ELSE candidates
        finalPool == IF Len(pool) > 0 THEN pool ELSE candidates
    IN  Range(finalPool)

\* the players side B can be in SMART mode, over all draws of the random term
SmartPool(a, candidates, avoidRecent, recentOppCount, t) ==
    LET n == Len(candidates)
        base == [i \in 1..n |->
                    2 * BaseScore(a, candidates[i], avoidRecent, recentOppCount, t)]
    IN  {candidates[BestFrom([i \in 1..n |-> base[i] + rnd[i]], 1, 1, -999999)] :
            rnd \in [1..n -> RandomDraws]}

SideBChoices(a, candidates, mode, avoidRecent, recentOppCount, t) ==
    IF mode = "RANDOM"
    THEN RandomPool(a, candidates, avoidRecent, recentOppCount)
    ELSE SmartPool(a, candidates, avoidRecent, recentOppCount, t)

\* a pickMatchFromQueue that gives up below three active entries
pickMatchFromQueueBelowThree(queue, players, mode, randomA, randomATopN, avoidRecent, recentOppCount, t) ==
    LET activeQueue == ActiveQueue(queue, players)
    IN  IF Len(activeQueue) < 3 THEN {NoMatch}
        ELSE UNION {
               LET candidates == Candidates(activeQueue, a)
               IN  IF Len(candidates) = 0 THEN {NoMatch}
                   ELSE {[aId |-> a.id, bId |-> b.id, createdAt |-> t] :
                            b \in SideBChoices(a, candidates, mode, avoidRecent,
                                               recentOppCount, t)}
               : a \in SideAChoices(activeQueue, randomA, randomATopN)}

\* The set of values pickMatchFromQueue can return; NoMatch stands for null.
pickMatchFromQueue(queue, players, mode, randomA, randomATopN, avoidRecent, recentOppCount, t) ==
    LET activeQueue == ActiveQueue(queue, players)
    IN  IF Len(activeQueue) < 2 THEN {NoMatch}
        ELSE UNION {
               LET candidates == Candidates(activeQueue, a)
               IN  IF Len(candidates) = 0 THEN {NoMatch}
                   ELSE {[aId |-> a.id, bId |-> b.id, createdAt |-> t] :
                            b \in SideBChoices(a, candidates, mode, avoidRecent,
                                               recentOppCount, t)}
               : a \in SideAChoices(activeQueue, randomA, randomATopN)}

\* ------------------------------------------------- the registration form
\* useState of lines 333-337: role, dpsType, weapon1, weapon2, level.  The
\* nick field (line 332) is what the user has typed when addPlayer runs.
InitialForm == [role |-> "DPS", dpsType |-> "MELEE",
                weapon1 |-> "Espada estrategica",
                weapon2 |-> "Espada estrategica", level |-> "MEDIO"]

Roles == {"TANK", "HEALER", "DPS"}
DpsTypes == {"MELEE", "RANGED"}

\* the branches shared by the two effects (lines 445-455 and 465-473)
AdjustWeapons(f) ==
    LET catalog == IF f.dpsType = "RANGED" THEN DPS_RANGED_WEAPONS
                   ELSE DPS_MELEE_WEAPONS
        first == IF f.dpsType = "RANGED" THEN "Sombrilla"
                 ELSE "Espada estrategica"
    IN  [f EXCEPT !.weapon1 = IF @ \in catalog THEN @ ELSE first,
                  !.weapon2 = IF @ \in catalog THEN @ ELSE first]

\* the effect on [role] (lines 443-461)
RoleEffect(f) ==
    IF f.role = "DPS" THEN AdjustWeapons(f)
    ELSE [f EXCEPT !.weapon1 = Placeholder, !.weapon2 = Placeholder]

\* an effect on [dpsType] that never runs
DpsTypeEffectNone(f) == f

\* the effect on [dpsType] (lines 463-475)
DpsTypeEffect(f) == IF f.role # "DPS" THEN f ELSE AdjustWeapons(f)

\* the options of the two weapon selects (lines 477-482)
weaponOptions(f) ==
    IF f.role # "DPS" THEN {Placeholder}
    ELSE IF f.dpsType = "RANGED" THEN DPS_RANGED_WEAPONS
         ELSE DPS_MELEE_WEAPONS

\* ------------------------------------------------------------- the state
\* A tab that is not open holds ClosedTab.
ClosedTab ==
    [open |-> FALSE, players |-> <<>>, results |-> <<>>, queue |-> <<>>,
     screenMatches |-> <<>>, currentMatch |-> NoMatch, resolvingMatchAt |-> 0,
     form |-> InitialForm, syncIn |-> 0, storageIn |-> 0]

\* localStorage.getItem(LS_KEY) === null
NoSnapshot ==
    [present |-> FALSE, players |-> <<>>, results |-> <<>>, queue |-> <<>>,
     currentMatch |-> NoMatch, screenMatches |-> <<>>]

\* saveState: the JSON written to localStorage.  savedAt is left out: nothing
\* reads it back, and what it decides (whether a write changes the stored
\* string, so that a storage event fires) is left open where it matters.
saveState(s) ==
    [present |-> TRUE, players |-> s.players, results |-> s.results,
     queue |-> s.queue, currentMatch |-> s.currentMatch,
     screenMatches |-> s.screenMatches]

\* loadState's migration of one stored player (weapon1 ?? weapon ?? "-")
MigratePlayer(p) ==
    [p EXCEPT !.weapon1 = IF p.weapon1 = "null" THEN Placeholder ELSE p.weapon1,
              !.weapon2 = IF p.weapon2 = "null" THEN Placeholder ELSE p.weapon2]

\* loadState: the state read back from localStorage
loadState(snap) ==
    IF ~snap.present
    THEN [players |-> <<>>, results |-> <<>>, queue |-> <<>>,
          currentMatch |-> NoMatch, screenMatches |-> <<>>]
    ELSE [players |-> [i \in 1..Len(snap.players) |-> MigratePlayer(snap.players[i])],
          results |-> snap.results, queue |-> snap.queue,
          currentMatch |-> snap.currentMatch,
          screenMatches |-> snap.screenMatches]

\* useState(() => loadState()) and useState(persistedMatch ?? null)
MountTab(snap) ==
    LET s == loadState(snap)
    IN  [open |-> TRUE, players |-> s.players, results |-> s.results,
         queue |-> s.queue, screenMatches |-> s.screenMatches,
         currentMatch |-> s.currentMatch, resolvingMatchAt |-> 0,
         form |-> InitialForm, syncIn |-> 0, storageIn |-> 0]

\* last: the handler that ran last, its tab, the match and the player id it
\* was about (for applyResultForMatch the declared winner), and whether it
\* went past its early returns
NoCall == [op |-> "none", t |-> 0, m |-> NoMatch, id |-> 0, done |-> FALSE]

Call(op, t, m, id, done) == [op |-> op, t |-> t, m |-> m, id |-> id, done |-> done]

\* ------------------------------------------------------- render effects
\* The effect of lines 411-415: once results holds the createdAt that
\* resolvingMatchAt names, resolvingMatchAt goes back to null.
ResolvingEffect(s) ==
    IF s.resolvingMatchAt # 0
       /\ \E i \in 1..Len(s.results) :
             s.results[i].match.createdAt = s.resolvingMatchAt
    THEN [s EXCEPT !.resolvingMatchAt = 0]
    ELSE s

\* A SYNC message and a storage event reach every other open tab.  Pending
\* notifications past MaxInbox are coalesced: the handlers read localStorage
\* when they run, never the notification.
Notified(u, valueChanged) ==
    [u EXCEPT !.syncIn = Min(@ + 1, MaxInbox),
              !.storageIn = IF valueChanged THEN Min(@ + 1, MaxInbox) ELSE @]

\* Whether a write fires a storage event: always when the snapshot differs,
\* and when only savedAt can differ, either way.
ValueChanged(snap) == IF snap # ls THEN {TRUE} ELSE BOOLEAN

\* The render that follows a handler of tab t: s is the tab's new state and
\* changed says whether one of players, results, queue, currentMatch,
\* screenMatches is a new object, so that the effect of lines 339-342 runs
\* (saveState, then emitSync).
Render(t, s, changed) ==
    LET s2 == ResolvingEffect(s)
        snap == saveState(s2)
    IN  /\ ls' = IF changed THEN snap ELSE ls
        /\ \E fired \in ValueChanged(snap) :
              tab' = [u \in TabIds |->
                        IF u = t THEN s2
                        ELSE IF changed /\ tab[u].open
                             THEN Notified(tab[u], fired)
                             ELSE tab[u]]

\* ----------------------------------------------------------- the handlers
\* Every handler runs to completion together with the render and the effects
\* it triggers: React flushes them before it dispatches the next event.

\* what the user enters to register the k-th player: nick and form.  The
\* second and third attempts can also be a nick that differs from the first
\* only by case and blanks, and a blank nick.
FormTank == [role |-> "TANK", dpsType |-> "MELEE", weapon1 |-> Placeholder,
             weapon2 |-> Placeholder, level |-> "MEDIO"]
FormMelee == [role |-> "DPS", dpsType |-> "MELEE",
              weapon1 |-> "Espada estrategica", weapon2 |-> "Duales",
              level |-> "MEDIO"]
FormRanged == [role |-> "DPS", dpsType |-> "RANGED", weapon1 |-> "Sombrilla",
               weapon2 |-> "Abanico", level |-> "MEDIO"]

Entrants(k) ==
    CASE k = 1 -> {<<<<"a">>, FormTank>>}
      [] k = 2 -> {<<<<"b">>, FormMelee>>, <<<<" ", "A">>, FormMelee>>}
      [] k = 3 -> {<<<<"c">>, FormTank>>, <<<<" ">>, FormTank>>}
      [] k = 4 -> {<<<<"d">>, FormRanged>>}
      [] OTHER -> {<<<<"e">>, FormMelee>>}

\* a duplicate check that compares the nicks as they are
NickExistsExact(players, cleanNick) ==
    \E i \in 1..Len(players) : players[i].nick = cleanNick

NickExists(players, cleanNick) ==
    \E i \in 1..Len(players) :
        ToLowerCase(Trim(players[i].nick)) = ToLowerCase(cleanNick)

NewPlayer(id, cleanNick, form) ==
    [id |-> id, nick |-> cleanNick, role |-> form.role,
     dpsType |-> IF form.role = "DPS" THEN form.dpsType ELSE "null",
     weapon1 |-> IF form.role = "DPS" THEN form.weapon1 ELSE Placeholder,
     weapon2 |-> IF form.role = "DPS" THEN form.weapon2 ELSE Placeholder,
     level |-> form.level, active |-> TRUE, wins |-> 0, losses |-> 0,
     lastOpponents |-> <<>>, lastPlayedAt |-> 0]

\* addPlayer when the nick field holds nick and the form holds form; lines
\* 517-522 put the form back to its initial values
addPlayer(t, nick, form) ==
    LET s == tab[t]
        cleanNick == Trim(nick)
        ok == cleanNick # <<>> /\ ~NickExists(s.players, cleanNick)
        p == NewPlayer(nextId, cleanNick, form)
    IN  /\ s.open
        /\ Render(t,
                  IF ok
                  THEN [s EXCEPT !.players = <<p>> \o @,
                                 !.queue = Append(@, p.id),
                                 !.form = DpsTypeEffect(RoleEffect(InitialForm))]
                  ELSE [s EXCEPT !.form = form],
                  ok)
        /\ nextId' = IF ok THEN nextId + 1 ELSE nextId
        /\ last' = Call("addPlayer", t, NoMatch, IF ok THEN p.id ELSE 0, ok)

\* the role select (line 963) and the effect on [role]
setRole(t, r) ==
    LET s == tab[t]
    IN  /\ s.open
        /\ r # s.form.role
        /\ Render(t, [s EXCEPT !.form = RoleEffect([@ EXCEPT !.role = r])], FALSE)
        /\ last' = Call("setRole", t, NoMatch, 0, TRUE)
        /\ UNCHANGED nextId

\* the dpsType select (lines 971-972) and the effect on [dpsType]
setDpsType(t, d) ==
    LET s == tab[t]
    IN  /\ s.open
        /\ s.form.role = "DPS"
        /\ d # s.form.dpsType
        /\ Render(t, [s EXCEPT !.form = DpsTypeEffect([@ EXCEPT !.dpsType = d])], FALSE)
        /\ last' = Call("setDpsType", t, NoMatch, 0, TRUE)
        /\ UNCHANGED nextId

\* the weapon selects (lines 977-998)
setWeapon1(t, w) ==
    LET s == tab[t]
    IN  /\ s.open
        /\ s.form.role = "DPS"
        /\ w \in weaponOptions(s.form) \ {s.form.weapon1}
        /\ Render(t, [s EXCEPT !.form.weapon1 = w], FALSE)
        /\ last' = Call("setWeapon1", t, NoMatch, 0, TRUE)
        /\ UNCHANGED nextId

setWeapon2(t, w) ==
    LET s == tab[t]
    IN  /\ s.open
        /\ s.form.role = "DPS"
        /\ w \in weaponOptions(s.form) \ {s.form.weapon2}
        /\ Render(t, [s EXCEPT !.form.weapon2 = w], FALSE)
        /\ last' = Call("setWeapon2", t, NoMatch, 0, TRUE)
        /\ UNCHANGED nextId

InMatch(m, id) == m # NoMatch /\ (m.aId = id \/ m.bId = id)

toggleActive(t, id) ==
    LET s == tab[t]
    IN  /\ s.open
        /\ HasPlayer(s.players, id)
        /\ Render(t,
                  [s EXCEPT
                     !.currentMatch = IF InMatch(@, id) THEN NoMatch ELSE @,
                     !.players = [i \in 1..Len(@) |->
                                    IF @[i].id = id
                                    THEN [@[i] EXCEPT !.active = ~@]
                                    ELSE @[i]]],
                  TRUE)
        /\ last' = Call("toggleActive", t, NoMatch, id, TRUE)
        /\ UNCHANGED nextId

Levels == {"BAJO", "MEDIO", "ALTO"}

\* the level select of a player's row (lines 1090-1094)
updatePlayerLevel(t, id, newLevel) ==
    LET s == tab[t]
    IN  /\ s.open
        /\ HasPlayer(s.players, id)
        /\ PlayerById(s.players, id).level # newLevel
        /\ Render(t,
                  [s EXCEPT !.players = [i \in 1..Len(@) |->
                                           IF @[i].id = id
                                           THEN [@[i] EXCEPT !.level = newLevel]
                                           ELSE @[i]]],
                  TRUE)
        /\ last' = Call("updatePlayerLevel", t, NoMatch, id, TRUE)
        /\ UNCHANGED nextId

removePlayer(t, id) ==
    LET s == tab[t]
    IN  /\ s.open
        /\ HasPlayer(s.players, id)
        /\ Render(t,
                  [s EXCEPT
                     !.currentMatch = IF InMatch(@, id) THEN NoMatch ELSE @,
                     !.players = SelectSeq(@, LAMBDA p : p.id # id),
                     !.queue = SelectSeq(@, LAMBDA qid : qid # id)],
                  TRUE)
        /\ last' = Call("removePlayer", t, NoMatch, id, TRUE)
        /\ UNCHANGED nextId

\* a rebuilt queue that lists the roster as it stands
RebuiltQueueInRosterOrder(players) == [i \in 1..Len(players) |-> players[i].id]

RebuiltQueue(players) ==
    LET activeIds == SelectSeq(players, LAMBDA p : p.active)
        inactiveIds == SelectSeq(players, LAMBDA p : ~p.active)
        both == activeIds \o inactiveIds
    IN  [i \in 1..Len(both) |-> both[i].id]

rebuildQueueFromPlayers(t) ==
    LET s == tab[t]
    IN  /\ s.open
        /\ Render(t, [s EXCEPT !.queue = RebuiltQueue(s.players)], TRUE)
        /\ last' = Call("rebuildQueueFromPlayers", t, NoMatch, 0, TRUE)
        /\ UNCHANGED nextId

\* createdAt of the results
ResolvedCreatedAt(results) == {results[i].match.createdAt : i \in 1..Len(results)}

\* the ids of the players of the screenMatches entries that have no result
Busy(s) ==
    UNION {{s.screenMatches[i].aId, s.screenMatches[i].bId} :
             i \in {j \in 1..Len(s.screenMatches) :
                      s.screenMatches[j].createdAt
                          \notin ResolvedCreatedAt(s.results)}}

\* a draw that does not set the players of in-flight matches aside
AvailableQueueAll(s) == s.queue

AvailableQueue(s) == SelectSeq(s.queue, LAMBDA id : id \notin Busy(s))

\* the toggles of lines 311, 326-329, as the user has set them: the two
\* sliders stay at their initial values 6 and 3
OptionInputs ==
    {[mode |-> "SMART", randomA |-> TRUE, randomATopN |-> 6,
      avoidRecent |-> TRUE, recentOppCount |-> 3],
     [mode |-> "SMART", randomA |-> FALSE, randomATopN |-> 6,
      avoidRecent |-> FALSE, recentOppCount |-> 3],
     [mode |-> "RANDOM", randomA |-> TRUE, randomATopN |-> 6,
      avoidRecent |-> FALSE, recentOppCount |-> 3],
     [mode |-> "RANDOM", randomA |-> FALSE, randomATopN |-> 6,
      avoidRecent |-> TRUE, recentOppCount |-> 3]}

\* a nextMatch that stamps lastPlayedAt on the two players it draws
nextMatchStamping(t, opts) ==
    LET s == tab[t]
        picks == UNION {pickMatchFromQueue(AvailableQueue(s), s.players, o.mode,
                                           o.randomA, o.randomATopN,
                                           o.avoidRecent, o.recentOppCount, now) :
                          o \in opts}
    IN  /\ s.open
        /\ \E m \in picks :
              /\ Render(t,
                        IF m # NoMatch
                        THEN [s EXCEPT
                                !.currentMatch = m,
                                !.players = [i \in 1..Len(@) |->
                                               IF InMatch(m, @[i].id)
                                               THEN [@[i] EXCEPT !.lastPlayedAt = now]
                                               ELSE @[i]],
                                !.screenMatches = LastN(Append(@, m), ScreenCap)]
                        ELSE [s EXCEPT !.currentMatch = NoMatch],
                        m # NoMatch \/ s.currentMatch # NoMatch)
              /\ last' = Call("nextMatch", t, m, 0, m # NoMatch)
        /\ UNCHANGED nextId

\* opts: the settings the toggles may have when the button is clicked
nextMatch(t, opts) ==
    LET s == tab[t]
        picks == UNION {pickMatchFromQueue(AvailableQueue(s), s.players, o.mode,
                                           o.randomA, o.randomATopN,
                                           o.avoidRecent, o.recentOppCount, now) :
                          o \in opts}
    IN  /\ s.open
        /\ \E m \in picks :
              /\ Render(t,
                        IF m # NoMatch
                        THEN [s EXCEPT
                                !.currentMatch = m,
                                !.screenMatches = LastN(Append(@, m), ScreenCap)]
                        ELSE [s EXCEPT !.currentMatch = NoMatch],
                        m # NoMatch \/ s.currentMatch # NoMatch)
              /\ last' = Call("nextMatch", t, m, 0, m # NoMatch)
        /\ UNCHANGED nextId

\* an abandon that also sends the two players to the end of the queue
resetMatchRequeue(t) ==
    LET s == tab[t]
        m == s.currentMatch
    IN  /\ s.open
        /\ Render(t, [s EXCEPT !.currentMatch = NoMatch,
                               !.queue = SelectSeq(@, LAMBDA id : id # m.aId /\ id # m.bId)
                                           \o <<m.aId, m.bId>>],
                  s.currentMatch # NoMatch)
        /\ last' = Call("resetMatch", t, s.currentMatch, 0, TRUE)
        /\ UNCHANGED nextId

resetMatch(t) ==
    LET s == tab[t]
    IN  /\ s.open
        /\ Render(t, [s EXCEPT !.currentMatch = NoMatch], s.currentMatch # NoMatch)
        /\ last' = Call("resetMatch", t, s.currentMatch, 0, TRUE)
        /\ UNCHANGED nextId

\* players after a result that count the win and forget the loss
UpdatedPlayersWinOnly(players, winnerId, loserId, t) ==
    [i \in 1..Len(players) |->
        IF players[i].id = winnerId
        THEN [players[i] EXCEPT !.wins = @ + 1, !.lastPlayedAt = t]
        ELSE players[i]]

\* the players after a result (lines 622-635)
UpdatedPlayers(players, winnerId, loserId, t) ==
    [i \in 1..Len(players) |->
        LET p == players[i]
        IN  IF p.id # winnerId /\ p.id # loserId THEN p
            ELSE [p EXCEPT
                    !.wins = IF p.id = winnerId THEN @ + 1 ELSE @,
                    !.losses = IF p.id = loserId THEN @ + 1 ELSE @,
                    !.lastOpponents =
                        clampHistory(<<IF p.id = winnerId THEN loserId
                                       ELSE winnerId>> \o @, HistoryCap),
                    !.lastPlayedAt = t]]

\* a requeue that puts the loser before the winner
RequeueLoserFirst(queue, winnerId, loserId) ==
    SelectSeq(queue, LAMBDA id : id # winnerId /\ id # loserId)
        \o <<loserId, winnerId>>

\* a requeue that leaves the earlier entries of the two players in place
RequeueAppending(queue, winnerId, loserId) == queue \o <<winnerId, loserId>>

\* the queue after a result (lines 637-640)
Requeue(queue, winnerId, loserId) ==
    SelectSeq(queue, LAMBDA id : id # winnerId /\ id # loserId)
        \o <<winnerId, loserId>>

AlreadyResolved(results, match) == match.createdAt \in ResolvedCreatedAt(results)

\* the updater handed to setData (lines 615-654)
ApplyResult(s, match, winnerId, loserId, t) ==
    IF AlreadyResolved(s.results, match) THEN s
    ELSE [s EXCEPT
            !.players = UpdatedPlayers(@, winnerId, loserId, t),
            !.results = <<[match |-> match, winnerId |-> winnerId,
                           loserId |-> loserId, finishedAt |-> t]>> \o @,
            !.queue = Requeue(@, winnerId, loserId),
            !.screenMatches =
                SelectSeq(@, LAMBDA m : m.createdAt # match.createdAt)]

\* result buttons shown also for a match whose players have left the roster
OfferedAnyway(s) ==
    ({s.currentMatch} \cup Range(s.screenMatches)
     \cup {s.results[i].match : i \in 1..Min(1, Len(s.results))}) \ {NoMatch}

\* The matches a result button can be clicked for: the current match, the
\* screenMatches entries and, for the second click of a double click, the
\* match resolved last; a match is rendered only when both its players are in
\* the roster (lines 846-849).
Offered(s) ==
    {m \in ({s.currentMatch} \cup Range(s.screenMatches)
            \cup {s.results[i].match : i \in 1..Min(1, Len(s.results))})
           \ {NoMatch} :
        HasPlayer(s.players, m.aId) /\ HasPlayer(s.players, m.bId)}

applyResultForMatch(t, match, winnerId, loserId) ==
    LET s == tab[t]
        guarded == s.resolvingMatchAt = match.createdAt
        fresh == ~guarded /\ ~AlreadyResolved(s.results, match)
        closes == ~guarded /\ s.currentMatch.createdAt = match.createdAt
        s1 == IF guarded THEN s
              ELSE [ApplyResult(s, match, winnerId, loserId, now) EXCEPT
                      !.resolvingMatchAt = match.createdAt,
                      !.currentMatch = IF closes THEN NoMatch ELSE @]
    IN  /\ s.open
        /\ Render(t, s1, fresh \/ (closes /\ s.currentMatch # NoMatch))
        /\ last' = Call("applyResultForMatch", t, match, winnerId, fresh)
        /\ UNCHANGED nextId

\* resetAll when the user answers the confirm dialog with confirmed
resetAll(t, confirmed) ==
    LET s == tab[t]
    IN  /\ s.open
        /\ Render(t,
                  IF confirmed
                  THEN [s EXCEPT !.players = <<>>, !.results = <<>>,
                                 !.queue = <<>>, !.screenMatches = <<>>,
                                 !.currentMatch = NoMatch]
                  ELSE s,
                  confirmed)
        /\ last' = Call("resetAll", t, NoMatch, 0, confirmed)
        /\ UNCHANGED nextId

\* Date.now() moves on by a millisecond
Tick ==
    /\ now < MaxNow
    /\ now' = now + 1
    /\ UNCHANGED <<tab, ls, nextId, last, used, pk, tp, nf>>

\* no call of pickMatchFromQueue of its own is under way
PkIdle == [queue |-> <<>>, players |-> <<>>, opts |-> <<>>, out |-> NoMatch,
           called |-> TRUE]

\* ------------------------------------------------ the tournament page
\* TournamentPage (src/app/tournament/page.tsx).  Player ids are numbers, ""
\* for side B of a bye is 0, msg null is "null"; the other values of msg
\* stand for the texts of lines 69, 87, 117, 121, 138 and for the message of
\* a failed insert.  saving holds the match whose fight is being written, or
\* NoSave.
NoSave == [id |-> <<0, 0>>, round |-> 0, a |-> 0, b |-> 0, winner |-> "",
           canceled |-> FALSE]

TpIdle == [selected |-> {}, bracket |-> <<>>, round |-> 1, msg |-> "null",
           allowBye |-> TRUE, saving |-> NoSave]

\* the results of shuffle(arr): Fisher-Yates yields every order
shuffle(arr) ==
    {[i \in 1..Len(arr) |-> arr[f[i]]] : f \in Permutations(1..Len(arr))}

\* Array.from(selected): the ids in some order (shuffle follows)
RECURSIVE ArrayFrom(_)
ArrayFrom(set) ==
    IF set = {} THEN <<>>
    ELSE LET x == CHOOSE y \in set : \A z \in set : y <= z
         IN  <<x>> \o ArrayFrom(set \ {x})

\* a pairing that takes one player off the pool per match
PairUpOnePop(pool, r) ==
    [k \in 1..(Len(pool) \div 2) |->
        [id |-> <<r, k - 1>>, round |-> r,
         a |-> pool[Len(pool) - (k - 1)],
         b |-> pool[Len(pool) - (k - 1) - 1],
         winner |-> "", canceled |-> FALSE]]

\* the while loops of lines 75-79 and 129-133: two pops per match
PairUp(pool, r) ==
    [k \in 1..(Len(pool) \div 2) |->
        [id |-> <<r, k - 1>>, round |-> r,
         a |-> pool[Len(pool) - 2 * (k - 1)],
         b |-> pool[Len(pool) - 2 * (k - 1) - 1],
         winner |-> "", canceled |-> FALSE]]

\* a bye that still waits for its winner
ByeUndecided(pool, r) ==
    [id |-> <<r, Len(pool) \div 2>>, round |-> r, a |-> pool[1], b |-> 0,
     winner |-> "", canceled |-> FALSE]

\* the match of the player left over (lines 85 and 137)
Bye(pool, r) ==
    [id |-> <<r, Len(pool) \div 2>>, round |-> r, a |-> pool[1], b |-> 0,
     winner |-> "A", canceled |-> FALSE]

\* a round that gives the bye whether or not byes are allowed
RoundOfByeAnyway(pool, r, allowBye) ==
    IF Len(pool) % 2 = 0 THEN PairUp(pool, r)
    ELSE Append(PairUp(pool, r), Bye(pool, r))

\* the new matches of round r for an order of the players, or <<>> when the
\* count is odd and byes are off
RoundOf(pool, r, allowBye) ==
    IF Len(pool) % 2 = 0 THEN PairUp(pool, r)
    ELSE IF allowBye THEN Append(PairUp(pool, r), Bye(pool, r))
         ELSE <<>>

TpCall(op, done) == Call(op, 0, NoMatch, 0, done)

toggle(id) ==
    /\ tp' = [tp EXCEPT !.selected = IF id \in @ THEN @ \ {id} ELSE @ \cup {id}]
    /\ last' = TpCall("toggle", TRUE)

setAllowBye(checked) ==
    /\ tp' = [tp EXCEPT !.allowBye = checked]
    /\ last' = TpCall("setAllowBye", TRUE)

generateRound1 ==
    LET ids == ArrayFrom(tp.selected)
    IN  IF Len(ids) < 2
        THEN /\ tp' = [tp EXCEPT !.msg = "few"]
             /\ last' = TpCall("generateRound1", FALSE)
        ELSE \E pool \in shuffle(ids) :
                LET matches == RoundOf(pool, 1, tp.allowBye)
                IN  IF matches = <<>>
                    THEN /\ tp' = [tp EXCEPT !.msg = "odd"]
                         /\ last' = TpCall("generateRound1", FALSE)
                    ELSE /\ tp' = [tp EXCEPT !.msg = "null", !.round = 1,
                                             !.bracket = matches]
                         /\ last' = TpCall("generateRound1", TRUE)

\* the button of lines 278-288
clearBracket ==
    /\ tp' = [tp EXCEPT !.bracket = <<>>, !.round = 1, !.msg = "null"]
    /\ last' = TpCall("clearBracket", TRUE)

\* a winnersOfRound that leaves the byes out
winnersOfRoundFought(bracket, r) ==
    LET ofRound == SelectSeq(bracket, LAMBDA m : m.round = r)
        won == SelectSeq(ofRound, LAMBDA m : ~m.canceled /\ m.winner # "" /\ m.b # 0)
    IN  [i \in 1..Len(won) |-> IF won[i].winner = "A" THEN won[i].a ELSE won[i].b]

\* a winnersOfRound that lets the winner of a canceled match through
winnersOfRoundCanceledToo(bracket, r) ==
    LET ofRound == SelectSeq(bracket, LAMBDA m : m.round = r)
        won == SelectSeq(ofRound, LAMBDA m : m.winner # "" \/ m.canceled)
    IN  [i \in 1..Len(won) |-> IF won[i].winner = "B" THEN won[i].b ELSE won[i].a]

\* filter(Boolean) drops the null of an undecided or canceled match and the ""
\* of a side B that is empty
winnersOfRound(bracket, r) ==
    LET ofRound == SelectSeq(bracket, LAMBDA m : m.round = r)
        won == SelectSeq(ofRound, LAMBDA m : /\ ~m.canceled /\ m.winner # ""
                                             /\ (m.winner = "B" => m.b # 0))
    IN  [i \in 1..Len(won) |-> IF won[i].winner = "A" THEN won[i].a ELSE won[i].b]

\* a canAdvance that is content with one decided match
canAdvanceOnAny(s) ==
    LET current == SelectSeq(s.bracket, LAMBDA m : m.round = s.round)
    IN  \E i \in 1..Len(current) : current[i].canceled \/ current[i].winner # ""

canAdvance(s) ==
    LET current == SelectSeq(s.bracket, LAMBDA m : m.round = s.round)
    IN  /\ current # <<>>
        /\ \A i \in 1..Len(current) : current[i].canceled \/ current[i].winner # ""

buildNextRound ==
    IF ~canAdvance(tp)
    THEN /\ tp' = [tp EXCEPT !.msg = "notReady"]
         /\ last' = TpCall("buildNextRound", FALSE)
    ELSE \E winners \in shuffle(winnersOfRound(tp.bracket, tp.round)) :
            IF Len(winners) <= 1
            THEN /\ tp' = [tp EXCEPT !.msg = "done"]
                 /\ last' = TpCall("buildNextRound", FALSE)
            ELSE LET next == RoundOf(winners, tp.round + 1, tp.allowBye)
                 IN  IF next = <<>>
                     THEN /\ tp' = [tp EXCEPT !.msg = "oddNext"]
                          /\ last' = TpCall("buildNextRound", FALSE)
                     ELSE /\ tp' = [tp EXCEPT !.msg = "null",
                                              !.round = @ + 1,
                                              !.bracket = @ \o next]
                          /\ last' = TpCall("buildNextRound", TRUE)

\* a match that is written as a fight whatever its sides are
IsFightAlways(m) == TRUE

\* m.a && m.b (lines 147 and 204): both sides of m are players
IsFight(m) == m.a # 0 /\ m.b # 0

\* setResult up to its await (lines 189-205): the bracket is replaced, and
\* a match with two sides has its fight written next
setResult(matchId, winner, canceled) ==
    LET found == {i \in 1..Len(tp.bracket) : tp.bracket[i].id = matchId}
        updated == [i \in 1..Len(tp.bracket) |->
                       IF tp.bracket[i].id = matchId
                       THEN [tp.bracket[i] EXCEPT
                               !.winner = IF canceled THEN "" ELSE winner,
                               !.canceled = canceled]
                       ELSE tp.bracket[i]]
        newMatch == updated[CHOOSE i \in found : \A j \in found : i <= j]
    IN  /\ tp' = IF found = {}
                 THEN [tp EXCEPT !.msg = "null"]
                 ELSE [tp EXCEPT !.msg = "null", !.bracket = updated,
                                 !.saving = IF IsFight(newMatch)
                                            THEN newMatch ELSE NoSave]
        /\ last' = TpCall("setResult", found # {})

\* the row saveFightToDB inserts for m (lines 150-155)
FightRow(m) ==
    [a |-> m.a, b |-> m.b, round |-> m.round,
     status |-> IF m.canceled THEN "canceled" ELSE "completed",
     winner_team |-> IF m.canceled \/ m.winner = "" THEN "null" ELSE m.winner]

\* saveFightToDB returns or throws and setResult runs to its end (lines
\* 145-187, 207-211): FightRow(tp.saving) and its participants are inserted,
\* or an insert fails and its message is shown
saveFightToDB(outcome) ==
    LET m == tp.saving
        skipped == ~IsFight(m)
    IN  /\ m # NoSave
        /\ tp' = [tp EXCEPT
                    !.saving = NoSave,
                    !.msg = IF ~skipped /\ outcome # "ok" THEN "error" ELSE @]
        /\ last' = TpCall("saveFightToDB", ~skipped /\ outcome = "ok")

SaveOutcomes == {"ok", "error"}

\* The page's events.  strict says whether the buttons' disabled attributes
\* hold the handlers back (lines 272, 285, 302, 330-345) or the handlers are
\* called as functions; n is the number of players loaded (lines 42-53).
TpFrame == UNCHANGED <<tab, ls, now, nextId, used, pk, nf>>

Select(n) ==
    /\ \E id \in 1..n : toggle(id)
    /\ TpFrame

SelectFirst(n) ==
    /\ tp.bracket = <<>>
    /\ Select(n)

AllowBye ==
    /\ setAllowBye(~tp.allowBye)
    /\ TpFrame

Generate(strict) ==
    /\ strict => Cardinality(tp.selected) >= 2
    /\ generateRound1
    /\ TpFrame

\* generateRound1 before any match has been decided
GenerateEarly(strict) ==
    /\ \A i \in 1..Len(tp.bracket) :
          tp.bracket[i].b # 0 => tp.bracket[i].winner = "" /\ ~tp.bracket[i].canceled
    /\ Generate(strict)

Clear ==
    /\ tp.bracket # <<>>
    /\ clearBracket
    /\ TpFrame

Advance(strict) ==
    /\ strict => canAdvance(tp)
    /\ buildNextRound
    /\ TpFrame

\* the buttons of a match of the current round that is no bye: "A" and "B"
\* for the two winners, "" for Cancelada
Decide(strict, buttons) ==
    /\ tp.saving = NoSave
    /\ \E i \in 1..Len(tp.bracket) :
          /\ strict => tp.bracket[i].round = tp.round /\ tp.bracket[i].b # 0
          /\ \E w \in buttons : setResult(tp.bracket[i].id, w, w = "")
    /\ TpFrame

Written ==
    /\ \E outcome \in SaveOutcomes : saveFightToDB(outcome)
    /\ TpFrame

\* ------------------------------------------- the fight-registration page
\* NewFightPage (the form that registers up to RowCap fights at once).
\* Player ids are numbers in the order of the ids' strings, "" is 0; a row
\* is a, b, winner and canceled (notes, a free text nothing reads, is left
\* out); msg null is "null".
EmptyRow == [a |-> 0, b |-> 0, winner |-> "", canceled |-> FALSE]

\* loaded is where the mount effect stands: "none" before the players
\* arrive, "players" once they are set, "all" once today's keys are set
NfIdle == [players |-> <<>>, matches |-> <<EmptyRow>>, recentPairKeys |-> {},
           msg |-> "null", loaded |-> "none"]

\* pairKey: the smaller id, "__", the larger id
pairKey(a, b) ==
    LET x == IF a < b THEN a ELSE b
        y == IF a < b THEN b ELSE a
    IN  <<x, y>>

\* the mount effect up to its second await (lines 36-56): the active
\* players
loadPlayers(k) ==
    /\ nf.loaded = "none"
    /\ nf' = [nf EXCEPT !.players = [i \in 1..k |-> i], !.loaded = "players"]
    /\ last' = Call("loadPlayers", 0, NoMatch, k, TRUE)

\* the rest of the mount effect (lines 58-103): the keys of today's fights
\* that are not canceled and have both sides.  fights is the set of their
\* <<A, B>>; a failed query is the empty set.
loadToday(fights) ==
    /\ nf.loaded = "players"
    /\ nf' = [nf EXCEPT !.recentPairKeys = {pairKey(f[1], f[2]) : f \in fights},
                        !.loaded = "all"]
    /\ last' = Call("loadToday", 0, NoMatch, Cardinality(fights), TRUE)

\* the ids in the slots of rows
UsedIn(rows) == UNION {{rows[i].a, rows[i].b} \ {0} : i \in 1..Len(rows)}

\* takeOne and takeOpponentAvoidingRepeat work on st: the pool, usedNow and
\* pairsNow of one autoFill; they return the id taken (0 for "") and the new
\* st.
RECURSIVE takeOne(_, _)
takeOne(st, usedIds) ==
    IF st.pool = <<>> THEN [id |-> 0, st |-> st]
    ELSE LET id == st.pool[Len(st.pool)]
             popped == [st EXCEPT !.pool = SubSeq(@, 1, Len(@) - 1)]
         IN  IF id \notin usedIds /\ id \notin st.usedNow
             THEN [id |-> id, st |-> [popped EXCEPT !.usedNow = @ \cup {id}]]
             ELSE takeOne(popped, usedIds)

\* an opponent taken from the end of the pool whatever was fought today
takeOpponentAnyway(fixedId, st, usedIds, recent) == takeOne(st, usedIds)

takeOpponentAvoidingRepeat(fixedId, st, usedIds, recent) ==
    LET fresh == {i \in 1..Len(st.pool) :
                    /\ pairKey(fixedId, st.pool[i]) \notin recent
                    /\ pairKey(fixedId, st.pool[i]) \notin st.pairsNow}
    IN  IF fresh # {}
        THEN LET i == CHOOSE j \in fresh : \A h \in fresh : h <= j
                 candidate == st.pool[i]
             IN  [id |-> candidate,
                  st |-> [pool |-> SubSeq(st.pool, 1, i - 1)
                                     \o SubSeq(st.pool, i + 1, Len(st.pool)),
                          usedNow |-> st.usedNow \cup {candidate},
                          pairsNow |-> st.pairsNow
                                         \cup {pairKey(fixedId, candidate)}]]
        ELSE takeOne(st, usedIds)

\* the row a pick completes (winner and canceled are reset), and its key
\* added to pairsNow
Completed(row, a, b) == [row EXCEPT !.a = a, !.b = b, !.winner = "", !.canceled = FALSE]

Paired(st, a, b) == [st EXCEPT !.pairsNow = @ \cup {pairKey(a, b)}]

\* the for loop of lines 209-238 from row i on; break ends it
RECURSIVE FillFrom(_, _, _, _, _)
FillFrom(next, i, st, usedIds, recent) ==
    IF i > Len(next) THEN next
    ELSE LET row == next[i]
         IN  IF row.a # 0 /\ row.b # 0
             THEN FillFrom(next, i + 1, st, usedIds, recent)
             ELSE IF row.a # 0
             THEN LET t == takeOpponentAvoidingRepeat(row.a, st, usedIds, recent)
                  IN  IF t.id = 0 THEN next
                      ELSE FillFrom([next EXCEPT ![i] = Completed(row, row.a, t.id)],
                                    i + 1, Paired(t.st, row.a, t.id), usedIds, recent)
             ELSE IF row.b # 0
             THEN LET t == takeOpponentAvoidingRepeat(row.b, st, usedIds, recent)
                  IN  IF t.id = 0 THEN next
                      ELSE FillFrom([next EXCEPT ![i] = Completed(row, t.id, row.b)],
                                    i + 1, Paired(t.st, t.id, row.b), usedIds, recent)
             ELSE LET ta == takeOne(st, usedIds)
                      tb == takeOpponentAvoidingRepeat(ta.id, ta.st, usedIds, recent)
                  IN  IF ta.id = 0 \/ tb.id = 0 THEN next
                      ELSE FillFrom([next EXCEPT ![i] = Completed(row, ta.id, tb.id)],
                                    i + 1, Paired(tb.st, ta.id, tb.id), usedIds, recent)

\* lines 172-173: the rows brought to RowCap
Padded(rows) ==
    SubSeq(rows \o [i \in 1..RowCap |-> EmptyRow], 1, RowCap)

\* every player, in a slot or not
AvailableAll(players, rows) == players

\* players.map(id).filter(not usedIds), in the order of players
Available(players, rows) == SelectSeq(players, LAMBDA id : id \notin UsedIn(rows))

autoFill ==
    LET prev == nf.matches
        usedIds == UsedIn(prev)
        available == Available(nf.players, prev)
    IN  IF Len(nf.players) < 2
        THEN /\ nf' = [nf EXCEPT !.msg = "fewPlayers"]
             /\ last' = Call("autoFill", 0, NoMatch, 0, FALSE)
        ELSE IF Len(available) < 2
        THEN /\ nf' = [nf EXCEPT !.msg = "fewAvailable"]
             /\ last' = Call("autoFill", 0, NoMatch, 0, FALSE)
        ELSE \E pool \in shuffle(available) :
                /\ nf' = [nf EXCEPT
                            !.msg = "null",
                            !.matches =
                                FillFrom(Padded(prev), 1,
                                         [pool |-> pool, usedNow |-> {},
                                          pairsNow |-> {}],
                                         usedIds, nf.recentPairKeys)]
                /\ last' = Call("autoFill", 0, NoMatch, 0, TRUE)

\* setMatch(idx, patch): patch is a record with some of the fields of a row
setMatch(idx, patch) ==
    /\ nf' = [nf EXCEPT !.matches =
                 [i \in 1..Len(@) |->
                    IF i = idx
                    THEN [f \in DOMAIN @[i] |->
                            IF f \in DOMAIN patch THEN patch[f] ELSE @[i][f]]
                    ELSE @[i]]]
    /\ last' = Call("setMatch", 0, NoMatch, idx, TRUE)

addMatch ==
    /\ nf' = [nf EXCEPT !.matches = IF Len(@) >= RowCap THEN @
                                    ELSE Append(@, EmptyRow)]
    /\ last' = Call("addMatch", 0, NoMatch, 0, Len(nf.matches) < RowCap)

removeMatch(idx) ==
    /\ nf' = [nf EXCEPT !.matches =
                 SubSeq(@, 1, idx - 1) \o SubSeq(@, idx + 1, Len(@))]
    /\ last' = Call("removeMatch", 0, NoMatch, idx, TRUE)

\* the Limpiar button (line 465), and saveAll at its end (line 329)
clearMatches ==
    /\ nf' = [nf EXCEPT !.matches = <<EmptyRow>>]
    /\ last' = Call("clearMatches", 0, NoMatch, 0, TRUE)

\* isUsedElsewhere (lines 128-132): the option of playerId is disabled
isUsedElsewhere(playerId, idx, side) ==
    /\ nf.matches[idx][side] # playerId
    /\ playerId \in UsedIn(nf.matches)

\* The page's events; the App widget and the tournament are not on this
\* page.  The user waits for the players to load; strict says whether the
\* disabled options of the selects hold the user back.
NfFrame == UNCHANGED <<tab, ls, now, nextId, pk, tp>>

\* what today's fights can be: A and B in either order
TodayChoices == {{}, {<<2, 1>>}, {<<2, 1>>, <<1, 3>>},
                 {<<2, 1>>, <<1, 3>>, <<4, 1>>}}

LoadPlayers ==
    /\ \E k \in 1..MaxFighters : loadPlayers(k)
    /\ NfFrame
    /\ UNCHANGED used

LoadToday ==
    /\ \E fights \in TodayChoices : loadToday(fights)
    /\ NfFrame
    /\ UNCHANGED used

ClearRows ==
    /\ nf.loaded # "none"
    /\ clearMatches
    /\ NfFrame
    /\ UNCHANGED used

AutoFill ==
    /\ nf.loaded # "none"
    /\ autoFill
    /\ NfFrame
    /\ UNCHANGED used

PickPlayer(strict) ==
    /\ nf.loaded # "none"
    /\ \E idx \in 1..Len(nf.matches), side \in {"a", "b"} :
          \E id \in {0} \cup Range(nf.players) :
             /\ strict /\ id # 0 => ~isUsedElsewhere(id, idx, side)
             /\ nf.matches[idx][side] # id
             /\ setMatch(idx, IF side = "a" THEN [a |-> id] ELSE [b |-> id])
    /\ used.edits < MaxFormEdits
    /\ used' = [used EXCEPT !.edits = @ + 1]
    /\ NfFrame

\* the winner button A and the canceled checkbox (lines 419-428), used on
\* a row that still misses a player
MarkRow ==
    /\ nf.loaded # "none"
    /\ \E idx \in 1..Len(nf.matches) :
          /\ nf.matches[idx].a = 0 \/ nf.matches[idx].b = 0
          /\ ~nf.matches[idx].canceled
          /\ \/ /\ nf.matches[idx].winner # "A"
                /\ setMatch(idx, [winner |-> "A"])
             \/ setMatch(idx, [canceled |-> TRUE, winner |-> ""])
    /\ used.edits < MaxFormEdits
    /\ used' = [used EXCEPT !.edits = @ + 1]
    /\ NfFrame

AddRow(strict) ==
    /\ nf.loaded # "none"
    /\ strict => Len(nf.matches) < RowCap
    /\ addMatch
    /\ NfFrame
    /\ UNCHANGED used

RemoveRow ==
    /\ nf.loaded # "none"
    /\ Len(nf.matches) > 1
    /\ \E idx \in 1..Len(nf.matches) : removeMatch(idx)
    /\ NfFrame
    /\ UNCHANGED used

InitFight ==
    /\ now = 1
    /\ tab = [u \in TabIds |-> ClosedTab]
    /\ ls = NoSnapshot
    /\ nextId = 1
    /\ last = NoCall
    /\ used = [proposed |-> 0, edits |-> 0]
    /\ pk = PkIdle
    /\ tp = TpIdle
    /\ nf = NfIdle

NextFight ==
    \/ LoadPlayers
    \/ LoadToday
    \/ ClearRows
    \/ AutoFill
    \/ PickPlayer(FALSE)
    \/ MarkRow
    \/ AddRow(FALSE)
    \/ RemoveRow

SpecFight == InitFight /\ [][NextFight]_vars

\* the page has mounted; the App widget is not on this page
InitPage ==
    /\ now = 1
    /\ tab = [u \in TabIds |-> ClosedTab]
    /\ ls = NoSnapshot
    /\ nextId = 1
    /\ last = NoCall
    /\ used = [proposed |-> 0, edits |-> 0]
    /\ pk = PkIdle
    /\ tp = TpIdle
    /\ nf = NfIdle

\* A tournament played through: the participants are ticked, the bracket is
\* generated, once or again before the first result, and played with the
\* buttons B and Cancelada of the current round (side A wins the byes, and
\* the shuffle puts either player of a pair on side B; SpecBracket and
\* SpecByes press button A too); byes are switched on and off at any time,
\* and generateRound1 and buildNextRound are called whether or not their
\* buttons are enabled.
NextCup ==
    \/ SelectFirst(MaxContestants)
    \/ AllowBye
    \/ GenerateEarly(FALSE)
    \/ Decide(TRUE, {"B", ""})
    \/ Written
    \/ Advance(FALSE)

SpecCup == InitPage /\ [][NextCup]_vars

\* Every event of the page in any order among a few players, generateRound1
\* and buildNextRound called whether or not their buttons are enabled.
NextBracket ==
    \/ Select(MaxBracketContestants)
    \/ AllowBye
    \/ Generate(FALSE)
    \/ Clear
    \/ Decide(TRUE, {"A", "B", ""})
    \/ Written
    \/ Advance(FALSE)

SpecBracket == InitPage /\ [][NextBracket]_vars

\* The handlers called as functions: setResult for any match of the bracket,
\* byes and matches of earlier rounds included.
NextByes ==
    \/ Select(MaxBracketContestants)
    \/ AllowBye
    \/ Generate(FALSE)
    \/ Decide(FALSE, {"A", "B", ""})
    \/ Written
    \/ Advance(FALSE)

SpecByes == InitPage /\ [][NextByes]_vars

\* ------------------------------------------------------------- one tab
\* Tab 1 has mounted on an empty localStorage and its first render has saved.
Init ==
    /\ now = 1
    /\ tab = [u \in TabIds |-> IF u = 1 THEN MountTab(NoSnapshot) ELSE ClosedTab]
    /\ ls = saveState(MountTab(NoSnapshot))
    /\ nextId = 1
    /\ last = NoCall
    /\ used = [proposed |-> 0, edits |-> 0]
    /\ pk = PkIdle
    /\ tp = TpIdle
    /\ nf = NfIdle

\* The bounds of an exploration, b: b.players ids, b.results results,
\* b.proposed calls of nextMatch, b.edits roster edits (toggleActive,
\* removePlayer, rebuildQueueFromPlayers).
Edit(b) == /\ used.edits < b.edits
           /\ used' = [used EXCEPT !.edits = @ + 1]

Propose(b) == /\ used.proposed < b.proposed
              /\ used' = [used EXCEPT !.proposed = @ + 1]

Register(t, b) ==
    /\ nextId <= b.players
    /\ \E e \in Entrants(nextId) : addPlayer(t, e[1], e[2])
    /\ UNCHANGED <<now, used, pk, tp, nf>>

Toggle(t, b) ==
    /\ \E id \in 1..b.players : toggleActive(t, id)
    /\ Edit(b)
    /\ UNCHANGED <<now, pk, tp, nf>>

Remove(t, b) ==
    /\ \E id \in 1..b.players : removePlayer(t, id)
    /\ Edit(b)
    /\ UNCHANGED <<now, pk, tp, nf>>

Relevel(t, b) ==
    /\ \E id \in 1..b.players, lv \in Levels : updatePlayerLevel(t, id, lv)
    /\ Edit(b)
    /\ UNCHANGED <<now, pk, tp, nf>>

Rebuild(t, b) ==
    /\ rebuildQueueFromPlayers(t)
    /\ Edit(b)
    /\ UNCHANGED <<now, pk, tp, nf>>

\* activeCount of lines 422-425; the button is disabled below 2 (line 778)
activeCount(s) == Len(SelectSeq(s.players, LAMBDA p : p.active))

Draw(t, b, opts) ==
    /\ activeCount(tab[t]) >= 2
    /\ nextMatch(t, opts)
    /\ Propose(b)
    /\ UNCHANGED <<now, pk, tp, nf>>

\* the button is disabled without a current match (line 785)
Abandon(t) ==
    /\ tab[t].currentMatch # NoMatch
    /\ resetMatch(t)
    /\ UNCHANGED <<now, used, pk, tp, nf>>

Resolve(t, b) ==
    /\ \E m \in Offered(tab[t]) :
          \E w \in {m.aId, m.bId} :
             applyResultForMatch(t, m, w, IF w = m.aId THEN m.bId ELSE m.aId)
    /\ Len(tab'[t].results) <= b.results
    /\ UNCHANGED <<now, used, pk, tp, nf>>

SpecBounds == [players |-> MaxPlayers, results |-> MaxResults,
               proposed |-> MaxProposed, edits |-> MaxEdits]

Next ==
    \/ Register(1, SpecBounds)
    \/ Toggle(1, SpecBounds)
    \/ Remove(1, SpecBounds)
    \/ Rebuild(1, SpecBounds)
    \/ Draw(1, SpecBounds, OptionInputs)
    \/ Abandon(1)
    \/ Resolve(1, SpecBounds)
    \/ Tick

Spec == Init /\ [][Next]_vars

\* ------------------------------------------------- the rotation alone
\* The roster is registered first; then nextMatch with randomizeA off and
\* applyResultForMatch alternate freely, every player staying active.
RotationBounds == [players |-> MaxPlayers, results |-> MaxResults,
                   proposed |-> MaxProposed + 1, edits |-> 0]

RotationOptions == {o \in OptionInputs : ~o.randomA}

RegisterFirst ==
    /\ used.proposed = 0
    /\ Register(1, RotationBounds)

NextRotation ==
    \/ RegisterFirst
    \/ Draw(1, RotationBounds, RotationOptions)
    \/ Resolve(1, RotationBounds)
    \/ Tick

SpecRotation == Init /\ [][NextRotation]_vars

\* ------------------------------------------- pickMatchFromQueue alone
\* pk holds the arguments of one call of pickMatchFromQueue and, once it has
\* been called, what it returned.
PickQueues == UNION {[1..n -> 1..MaxPickPlayers] : n \in 0..MaxPickLen}

\* what the roster can hold for id: nothing, the player inactive, the player
\* active, the player active with the next id as its last opponent
PickForm(id) ==
    CASE id = 1 -> FormTank
      [] id = 2 -> FormMelee
      [] OTHER -> FormRanged

PickProfiles(id) ==
    LET p == NewPlayer(id, <<"p">>, PickForm(id))
    IN  {<<>>,
         <<[p EXCEPT !.active = FALSE]>>,
         <<p>>,
         <<[p EXCEPT !.lastOpponents = <<(id % MaxPickPlayers) + 1>>]>>}

RECURSIVE PickRostersUpTo(_)
PickRostersUpTo(n) ==
    IF n = 0 THEN {<<>>}
    ELSE {r \o e : r \in PickRostersUpTo(n - 1), e \in PickProfiles(n)}

PickRosters == PickRostersUpTo(MaxPickPlayers)

\* the options of a call: mode, the two toggles, and the two sliders at their
\* lowest and at their initial positions (lines 327, 329, 806, 825)
PickOptions ==
    [mode : {"SMART", "RANDOM"}, randomA : BOOLEAN,
     randomATopN : {RandomATopNMin, RandomATopNDefault},
     avoidRecent : BOOLEAN,
     recentOppCount : {RecentOppCountMin, RecentOppCountDefault}]

InitPick ==
    /\ now = 1
    /\ tab = [u \in TabIds |-> ClosedTab]
    /\ ls = NoSnapshot
    /\ nextId = 1
    /\ last = NoCall
    /\ used = [proposed |-> 0, edits |-> 0]
    /\ \E q \in PickQueues, r \in PickRosters, o \in PickOptions :
          pk = [queue |-> q, players |-> r, opts |-> o, out |-> NoMatch,
                called |-> FALSE]
    /\ tp = TpIdle
    /\ nf = NfIdle

Pick ==
    /\ ~pk.called
    /\ \E m \in pickMatchFromQueue(pk.queue, pk.players, pk.opts.mode,
                                   pk.opts.randomA, pk.opts.randomATopN,
                                   pk.opts.avoidRecent, pk.opts.recentOppCount,
                                   now) :
          pk' = [pk EXCEPT !.out = m, !.called = TRUE]
    /\ UNCHANGED <<tab, ls, now, nextId, last, used, tp, nf>>

NextPick == Pick

SpecPick == InitPick /\ [][NextPick]_vars

\* ------------------------------------- pickMatchFromQueue: side B
\* pickMatchFromQueue is called on a queue that lists every player once, all
\* active, with side A at its head.  The players' roles, DPS styles and
\* weapons, their recent opponents, whether they have played, and the time
\* since then vary.
ScoreForm(k) ==
    CASE k = 1 -> FormTank
      [] k = 2 -> FormMelee
      [] OTHER -> FormRanged

\* the forms of the players, up to the order the queue gives them
ScoreCasts ==
    {c \in [1..MaxScorePlayers -> 1..3] :
        \A i \in 1..(MaxScorePlayers - 1) : c[i] <= c[i + 1]}

\* the recent opponents of player id: none, the next player, or the next
\* player and, before it, the previous one
ScoreHistory(id, h) ==
    LET next == (id % MaxScorePlayers) + 1
        prev == ((id + MaxScorePlayers - 2) % MaxScorePlayers) + 1
    IN  CASE h = 0 -> <<>>
          [] h = 1 -> <<next>>
          [] OTHER -> <<next, prev>>

ScoreRosters ==
    {[id \in 1..MaxScorePlayers |->
        [NewPlayer(id, <<"p">>, ScoreForm(c[id])) EXCEPT
            !.lastOpponents = ScoreHistory(id, h),
            !.lastPlayedAt = played[id]]] :
       c \in ScoreCasts, h \in 0..2, played \in [1..MaxScorePlayers -> {0, 1}]}

ScoreOptions ==
    {o \in PickOptions : ~o.randomA /\ o.randomATopN = RandomATopNDefault}

\* the call is made RecencyWindow - 1 or RecencyWindow ms after time 1
InitScore ==
    /\ now \in {RecencyWindow, RecencyWindow + 1}
    /\ tab = [u \in TabIds |-> ClosedTab]
    /\ ls = NoSnapshot
    /\ nextId = 1
    /\ last = NoCall
    /\ used = [proposed |-> 0, edits |-> 0]
    /\ \E q \in Permutations(1..MaxScorePlayers), r \in ScoreRosters,
          o \in ScoreOptions :
          pk = [queue |-> q, players |-> r, opts |-> o, out |-> NoMatch,
                called |-> FALSE]
    /\ tp = TpIdle
    /\ nf = NfIdle

NextScore == Pick

SpecScore == InitScore /\ [][NextScore]_vars

\* ------------------------------------------------- levels and pairing
\* One tab registers players, changes their levels, draws and resolves.
LevelBounds == [players |-> MaxScorePlayers, results |-> MaxResults - 1,
                proposed |-> MaxProposed - 1, edits |-> MaxEdits + 1]

NextLevel ==
    \/ Register(1, LevelBounds)
    \/ Relevel(1, LevelBounds)
    \/ Draw(1, LevelBounds, OptionInputs)
    \/ Resolve(1, LevelBounds)
    \/ Tick

SpecLevel == Init /\ [][NextLevel]_vars

\* ------------------------------------------------ a tab with a past
\* The tab has registered three players and played k rounds, 0 <= k <=
\* MaxRounds, one per millisecond; it goes on drawing and resolving.  Round k
\* is one of the matches nextMatch can draw (randomA on, RANDOM mode): player
\* (k - 1) mod 3 + 1 against the next one, won by the first.
RoundMatch(k) ==
    [aId |-> ((k - 1) % 3) + 1, bId |-> (k % 3) + 1, createdAt |-> k]

RECURSIVE AfterRounds(_)
AfterRounds(k) ==
    IF k = 0
    THEN [MountTab(NoSnapshot) EXCEPT
            !.players = <<NewPlayer(3, <<"c">>, FormRanged),
                          NewPlayer(2, <<"b">>, FormMelee),
                          NewPlayer(1, <<"a">>, FormTank)>>,
            !.queue = <<1, 2, 3>>]
    ELSE ApplyResult(AfterRounds(k - 1), RoundMatch(k), RoundMatch(k).aId,
                     RoundMatch(k).bId, k)

InitHistory ==
    \E k \in 0..MaxRounds :
       /\ now = k + 1
       /\ tab = [u \in TabIds |-> IF u = 1 THEN AfterRounds(k) ELSE ClosedTab]
       /\ ls = saveState(AfterRounds(k))
       /\ nextId = 4
       /\ last = NoCall
       /\ used = [proposed |-> 0, edits |-> 0]
       /\ pk = PkIdle
       /\ tp = TpIdle
       /\ nf = NfIdle

\* the clock stays within MaxNow ms of one millisecond per result
TickHistory ==
    /\ now < Len(tab[1].results) + MaxNow
    /\ now' = now + 1
    /\ UNCHANGED <<tab, ls, nextId, last, used, pk, tp, nf>>

HistoryBounds == [players |-> 3, results |-> MaxRounds + MaxProposed,
                  proposed |-> MaxProposed, edits |-> 0]

NextHistory ==
    \/ Draw(1, HistoryBounds, OptionInputs)
    \/ Resolve(1, HistoryBounds)
    \/ TickHistory

SpecHistory == InitHistory /\ [][NextHistory]_vars

\* ------------------------------------------------ filling the form
\* One tab: the user changes role, dpsType and the two weapons in any order
\* and registers players with what the form then holds.
FormBounds == [players |-> MaxTabsPlayers, results |-> 0, proposed |-> 0,
               edits |-> 0]

SetRole(t) ==
    /\ \E r \in Roles : setRole(t, r)
    /\ UNCHANGED <<now, used, pk, tp, nf>>

SetDpsType(t) ==
    /\ \E d \in DpsTypes : setDpsType(t, d)
    /\ UNCHANGED <<now, used, pk, tp, nf>>

SetWeapon1(t) ==
    /\ \E w \in DPS_RANGED_WEAPONS \cup DPS_MELEE_WEAPONS : setWeapon1(t, w)
    /\ UNCHANGED <<now, used, pk, tp, nf>>

SetWeapon2(t) ==
    /\ \E w \in DPS_RANGED_WEAPONS \cup DPS_MELEE_WEAPONS : setWeapon2(t, w)
    /\ UNCHANGED <<now, used, pk, tp, nf>>

Submit(t, b) ==
    /\ nextId <= b.players
    /\ \E e \in Entrants(nextId) : addPlayer(t, e[1], tab[t].form)
    /\ UNCHANGED <<now, used, pk, tp, nf>>

NextForm ==
    \/ SetRole(1)
    \/ SetDpsType(1)
    \/ SetWeapon1(1)
    \/ SetWeapon2(1)
    \/ Submit(1, FormBounds)

SpecForm == Init /\ [][NextForm]_vars

\* ------------------------------------------------ the roster at work
\* One tab with every handler of the roster and of the match lifecycle, the
\* clock standing still; several roster edits, one match.
RosterBounds == [players |-> MaxPlayers, results |-> MaxResults - 1,
                 proposed |-> MaxProposed - 1, edits |-> MaxEdits + 2]

NextRoster ==
    \/ Register(1, RosterBounds)
    \/ Toggle(1, RosterBounds)
    \/ Remove(1, RosterBounds)
    \/ Rebuild(1, RosterBounds)
    \/ Draw(1, RosterBounds, OptionInputs)
    \/ Abandon(1)
    \/ Resolve(1, RosterBounds)

SpecRoster == Init /\ [][NextRoster]_vars

\* ---------------------------------- selection: the function and its caller
\* Either pickMatchFromQueue is called on arguments of its own, or one tab
\* runs its handlers, nextMatch calling it on the free part of the queue.
SelectBounds == [players |-> MaxPlayers, results |-> MaxResults - 1,
                 proposed |-> MaxProposed, edits |-> MaxEdits]

InitSelect == Init \/ InitPick

NextSelect ==
    \/ Pick
    \/ Register(1, SelectBounds)
    \/ Toggle(1, SelectBounds)
    \/ Remove(1, SelectBounds)
    \/ Rebuild(1, SelectBounds)
    \/ Draw(1, SelectBounds, OptionInputs)
    \/ Abandon(1)
    \/ Resolve(1, SelectBounds)

SpecSelect == InitSelect /\ [][NextSelect]_vars

\* ------------------------------------------------------------ two tabs
\* A second tab of the same browser mounts on what localStorage holds; the
\* effect of lines 339-342 runs after its first render.
OpenTab(t) ==
    /\ ~tab[t].open
    /\ Render(t, MountTab(ls), TRUE)
    /\ last' = Call("mount", t, NoMatch, 0, TRUE)
    /\ UNCHANGED <<now, nextId, used, pk, tp, nf>>

\* listeners that leave the tab's state as it is
ReloadedNothing(s) == s

\* what both listeners do (lines 355-364 and 378-387): loadState, setData
\* with the arrays just parsed, setCurrentMatch
Reloaded(s) ==
    LET l == loadState(ls)
    IN  [s EXCEPT !.players = l.players, !.results = l.results,
                  !.queue = l.queue, !.screenMatches = l.screenMatches,
                  !.currentMatch = l.currentMatch]

\* the BroadcastChannel listener of tab t takes a SYNC message
OnSync(t) ==
    /\ tab[t].open
    /\ tab[t].syncIn > 0
    /\ Render(t, Reloaded([tab[t] EXCEPT !.syncIn = @ - 1]), TRUE)
    /\ last' = Call("SYNC", t, NoMatch, 0, TRUE)
    /\ UNCHANGED <<now, nextId, used, pk, tp, nf>>

\* the storage listener of tab t takes a storage event
OnStorage(t) ==
    /\ tab[t].open
    /\ tab[t].storageIn > 0
    /\ Render(t, Reloaded([tab[t] EXCEPT !.storageIn = @ - 1]), TRUE)
    /\ last' = Call("storage", t, NoMatch, 0, TRUE)
    /\ UNCHANGED <<now, nextId, used, pk, tp, nf>>

TabsBounds == [players |-> MaxTabsPlayers, results |-> MaxResults,
               proposed |-> MaxTabsProposed, edits |-> 0]

NextTabs ==
    \/ OpenTab(2)
    \/ \E t \in TabIds : Register(t, TabsBounds)
    \/ \E t \in TabIds : Draw(t, TabsBounds, OptionInputs)
    \/ \E t \in TabIds : Resolve(t, TabsBounds)
    \/ \E t \in TabIds : OnSync(t)
    \/ \E t \in TabIds : OnStorage(t)

SpecTabs == Init /\ [][NextTabs]_vars

\* The browser delivers every message and every storage event it has queued
\* for a tab; the user's actions are bounded by TabsBounds.
SpecTabsFair ==
    /\ SpecTabs
    /\ \A t \in TabIds : WF_vars(OnSync(t)) /\ WF_vars(OnStorage(t))

\* ------------------------------------------------- the totals
\* One tab; every handler but removePlayer, resetAll included.
Reset(t, b) ==
    /\ \E confirmed \in BOOLEAN : resetAll(t, confirmed)
    /\ Edit(b)
    /\ UNCHANGED <<now, pk, tp, nf>>

TotalsBounds == [players |-> MaxPlayers, results |-> MaxResults,
                 proposed |-> MaxProposed, edits |-> MaxEdits]

NextTotals ==
    \/ Register(1, TotalsBounds)
    \/ Toggle(1, TotalsBounds)
    \/ Rebuild(1, TotalsBounds)
    \/ Draw(1, TotalsBounds, OptionInputs)
    \/ Abandon(1)
    \/ Resolve(1, TotalsBounds)
    \/ Reset(1, TotalsBounds)
    \/ Tick

SpecTotals == Init /\ [][NextTotals]_vars

\* ------------------------------------------------- a full screen
\* The tab has registered MaxScreenPlayers players, enough for more matches
\* than the screen holds, and nextMatch has proposed 1 v 2, 3 v 4 and 5 v 6
\* within the first millisecond; it goes on drawing, in RANDOM mode with
\* side A taken from the head of the queue, and resolving.
ScreenNicks == <<"a", "b", "c", "d", "e", "f", "g", "h", "i", "j", "k", "l">>

RECURSIVE ScreenRoster(_)
ScreenRoster(k) ==
    IF k = 0 THEN <<>>
    ELSE <<NewPlayer(k, <<ScreenNicks[k]>>, FormTank)>> \o ScreenRoster(k - 1)

ScreenTab ==
    [MountTab(NoSnapshot) EXCEPT
       !.players = ScreenRoster(MaxScreenPlayers),
       !.queue = [i \in 1..MaxScreenPlayers |-> i],
       !.screenMatches = [k \in 1..3 |->
                            [aId |-> 2 * k - 1, bId |-> 2 * k, createdAt |-> 1]],
       !.currentMatch = [aId |-> 5, bId |-> 6, createdAt |-> 1]]

InitScreen ==
    /\ now = 1
    /\ tab = [u \in TabIds |-> IF u = 1 THEN ScreenTab ELSE ClosedTab]
    /\ ls = saveState(ScreenTab)
    /\ nextId = MaxScreenPlayers + 1
    /\ last = NoCall
    /\ used = [proposed |-> 0, edits |-> 0]
    /\ pk = PkIdle
    /\ tp = TpIdle
    /\ nf = NfIdle

ScreenBounds == [players |-> MaxScreenPlayers, results |-> 1,
                 proposed |-> MaxScreenProposed, edits |-> 0]

ScreenOptions == {o \in OptionInputs : ~o.randomA /\ o.mode = "RANDOM"}

NextScreen ==
    \/ Draw(1, ScreenBounds, ScreenOptions)
    \/ Resolve(1, ScreenBounds)
    \/ Tick

SpecScreen == InitScreen /\ [][NextScreen]_vars

\* ------------------------------------------------------- derived notions
OpenTabs == {t \in TabIds : tab[t].open}

\* the screenMatches entries (by position) that have no result
InFlight(s) ==
    {i \in 1..Len(s.screenMatches) :
        s.screenMatches[i].createdAt \notin ResolvedCreatedAt(s.results)}

\* a step of a handler, as opposed to a step of the clock
HandlerStep(op) == now' = now /\ last'.op = op

Without(q, a, b) == SelectSeq(q, LAMBDA id : id # a /\ id # b)

Wins(s, id) == PlayerById(s.players, id).wins
Losses(s, id) == PlayerById(s.players, id).losses

ResultsAt(s, createdAt) ==
    {i \in 1..Len(s.results) : s.results[i].match.createdAt = createdAt}

\* ------------------------------------------------------------------ C1
\* C1 (as claimed): a call of applyResultForMatch on a match m that has no
\* result of its own yet leaves exactly one MatchResult with m's createdAt and
\* adds 1 to the declared winner's wins and 1 to the loser's losses; a call on
\* a match that has its result leaves players, queue, results and
\* screenMatches unchanged.
C1_IdempotentResolve ==
    [][\A t \in TabIds :
          (HandlerStep("applyResultForMatch") /\ last'.t = t) =>
             LET s == tab[t]
                 s2 == tab'[t]
                 m == last'.m
                 w == last'.id
                 l == IF w = m.aId THEN m.bId ELSE m.aId
                 had == \E i \in 1..Len(s.results) : s.results[i].match = m
             IN  IF had
                 THEN /\ s2.players = s.players /\ s2.queue = s.queue
                      /\ s2.results = s.results
                      /\ s2.screenMatches = s.screenMatches
                 ELSE /\ Cardinality(ResultsAt(s2, m.createdAt)) = 1
                      /\ Wins(s2, w) = Wins(s, w) + 1
                      /\ Losses(s2, l) = Losses(s, l) + 1]_vars

\* ------------------------------------------------------------------ C2
\* C2 (as claimed): when a tab resolves a match for which the persisted
\* snapshot already holds a result (another tab resolved it first), the
\* resolution is dropped: the call applies nothing and the results of the
\* snapshot, with the first resolver's winner, stay as they are.
C2_FirstResolutionWins ==
    [][\A t \in TabIds :
          (HandlerStep("applyResultForMatch") /\ last'.t = t
           /\ AlreadyResolved(ls.results, last'.m)) =>
             /\ ~last'.done
             /\ ls'.results = ls.results]_vars

\* ------------------------------------------------------------------ C3
\* C3: in every reachable state of a tab, no player id occurs in two
\* different in-flight matches (screenMatches entries that have no result).
C3_NoPlayerInTwoInFlight ==
    \A t \in OpenTabs :
       \A i, j \in InFlight(tab[t]) :
          i # j =>
             {tab[t].screenMatches[i].aId, tab[t].screenMatches[i].bId}
               \cap {tab[t].screenMatches[j].aId, tab[t].screenMatches[j].bId} = {}

\* two matches are in flight at once
C3_Witness ==
    \E t \in OpenTabs : Cardinality(InFlight(tab[t])) >= 2

\* ------------------------------------------------------------------ C4
Played(s, id) == Wins(s, id) + Losses(s, id) > 0

RosterIds(s) == {s.players[i].id : i \in 1..Len(s.players)}

\* C4 (as claimed), SpecRotation: nextMatch never draws a player that has
\* played, on either side, while a player that has not played is free (in no
\* in-flight match).
C4_NobodyTwiceBeforeAllOnce ==
    [][\A t \in TabIds :
          (HandlerStep("nextMatch") /\ last'.t = t /\ last'.done
           /\ (Played(tab[t], last'.m.aId) \/ Played(tab[t], last'.m.bId))) =>
             \A q \in RosterIds(tab[t]) :
                Played(tab[t], q) \/ q \in Busy(tab[t])]_vars

\* C4 (amended), SpecRotation: nextMatch never draws as side A a player that
\* has played while a player that has not played is free; side B can be any
\* other free player.
C4_SideAInRotation ==
    [][\A t \in TabIds :
          (HandlerStep("nextMatch") /\ last'.t = t /\ last'.done
           /\ Played(tab[t], last'.m.aId)) =>
             \A q \in RosterIds(tab[t]) :
                Played(tab[t], q) \/ q \in Busy(tab[t])]_vars

\* side A of the match just drawn had played before, with three players or
\* more in the roster
C4_Witness ==
    \E t \in OpenTabs :
       /\ last.op = "nextMatch" /\ last.t = t /\ last.done
       /\ tab[t].currentMatch = last.m
       /\ Played(tab[t], last.m.aId)
       /\ Len(tab[t].players) >= 3

\* ------------------------------------------------------------------ C5
\* C5: when applyResultForMatch resolves a match between winner W and loser
\* L, W and L become the last two entries of the queue, W before L, and the
\* queue without W and L is the previous queue without W and L.
C5_RequeueWinnerThenLoser ==
    [][\A t \in TabIds :
          (HandlerStep("applyResultForMatch") /\ last'.t = t /\ last'.done) =>
             LET q == tab[t].queue
                 q2 == tab'[t].queue
                 w == tab'[t].results[1].winnerId
                 l == tab'[t].results[1].loserId
                 n == Len(q2)
             IN  /\ n >= 2
                 /\ q2[n - 1] = w /\ q2[n] = l
                 /\ SubSeq(q2, 1, n - 2) = Without(q, w, l)
                 /\ Without(q2, w, l) = Without(q, w, l)]_vars

\* a match was resolved while a third player waits behind its two players
C5_Witness ==
    \E t \in OpenTabs :
       /\ last.op = "applyResultForMatch" /\ last.t = t /\ last.done
       /\ Len(tab[t].queue) >= 3
       /\ tab[t].queue[1] # last.m.aId /\ tab[t].queue[1] # last.m.bId
       /\ tab[t].queue[Len(tab[t].queue)] = tab[t].results[1].loserId

\* ------------------------------------------------------------------ C6
\* C6 (as claimed): a match with a participant that toggleActive has
\* deactivated or removePlayer has removed is invalidated: no in-flight match
\* (the current match, a screenMatches entry without result) has a participant
\* that is inactive or not in the roster.
Playing(s, id) == HasPlayer(s.players, id) /\ PlayerById(s.players, id).active

C6_InFlightInvalidated ==
    [][\A t \in TabIds :
          ((HandlerStep("toggleActive") \/ HandlerStep("removePlayer"))
           /\ last'.t = t /\ ~Playing(tab'[t], last'.id)) =>
             /\ ~InMatch(tab'[t].currentMatch, last'.id)
             /\ \A i \in InFlight(tab'[t]) :
                   ~InMatch(tab'[t].screenMatches[i], last'.id)]_vars

\* ------------------------------------------------------------------ C7
\* C7 (as claimed): after resetMatch has abandoned a proposed match, its two
\* players are not excluded from the next draw of nextMatch.
C7_AbandonedPlayersFree ==
    \A t \in OpenTabs :
       (last.op = "resetMatch" /\ last.t = t /\ last.m # NoMatch) =>
          {last.m.aId, last.m.bId} \cap Busy(tab[t]) = {}

\* ------------------------------------------------------------------ C8
\* C8: resetMatch leaves players, queue and results unchanged.
C8_ResetFrame ==
    [][\A t \in TabIds :
          (HandlerStep("resetMatch") /\ last'.t = t) =>
             /\ tab'[t].players = tab[t].players
             /\ tab'[t].queue = tab[t].queue
             /\ tab'[t].results = tab[t].results]_vars

\* a match was abandoned after an earlier one had been resolved
C8_Witness ==
    \E t \in OpenTabs :
       /\ last.op = "resetMatch" /\ last.t = t /\ last.m # NoMatch
       /\ tab[t].currentMatch = NoMatch
       /\ Len(tab[t].results) >= 1
       /\ Len(tab[t].queue) >= 3

\* ------------------------------------------------------------------ C9
\* C9 (as claimed): after applyResultForMatch has run on match m, results
\* starts with m's MatchResult and m is neither in screenMatches nor the
\* current match; and no entry of screenMatches has a result with its
\* createdAt.
C9_ResolvedLeavesFlight ==
    \A t \in OpenTabs :
       LET s == tab[t]
       IN  /\ (last.op = "applyResultForMatch" /\ last.t = t) =>
                 /\ \E i \in 1..Len(s.results) : s.results[i].match = last.m
                 /\ last.done => s.results[1].match = last.m
                 /\ last.m \notin Range(s.screenMatches)
                 /\ s.currentMatch # last.m
           /\ InFlight(s) = 1..Len(s.screenMatches)

\* ----------------------------------------------------------------- C10
\* C10, SpecPick: every match pickMatchFromQueue returns has aId # bId,
\* whatever the queue (ids repeated or unknown to the roster included), the
\* roster and the options.
C10_DistinctSides ==
    (pk.called /\ pk.out # NoMatch) => pk.out.aId # pk.out.bId

\* a match came out of a queue that lists its side A twice
C10_Witness ==
    /\ pk.called /\ pk.out # NoMatch
    /\ Cardinality({i \in 1..Len(pk.queue) : pk.queue[i] = pk.out.aId}) >= 2

\* ----------------------------------------------------------------- C11
\* the queue entries that are active players of the roster, in queue order
ActiveEntries(queue, players) ==
    SelectSeq(queue, LAMBDA id : HasPlayer(players, id)
                                 /\ PlayerById(players, id).active)

Eligible(queue, players, id) == id \in Range(ActiveEntries(queue, players))

\* a step in which pickMatchFromQueue is called on the arguments pk holds
PickStep == ~pk.called /\ pk'.called

\* C11, SpecSelect: both participants of a match pickMatchFromQueue returns
\* are entries of the queue it was given, players of the roster and active;
\* both participants of a match nextMatch proposes are active entries of the
\* tab's queue and belong to no screenMatches entry without result.
C11_ParticipantsEligible ==
    [][/\ (PickStep /\ pk'.out # NoMatch) =>
            \A id \in {pk'.out.aId, pk'.out.bId} :
               /\ id \in Range(pk.queue)
               /\ HasPlayer(pk.players, id)
               /\ PlayerById(pk.players, id).active
       /\ \A t \in TabIds :
            (HandlerStep("nextMatch") /\ last'.t = t /\ last'.done) =>
               \A id \in {last'.m.aId, last'.m.bId} :
                  /\ Eligible(tab[t].queue, tab[t].players, id)
                  /\ id \notin Busy(tab[t])]_vars

\* nextMatch proposed a match while another match was in flight
C11_Witness ==
    \E t \in OpenTabs :
       /\ last.op = "nextMatch" /\ last.t = t /\ last.done
       /\ Cardinality(InFlight(tab[t])) >= 2

C19_SideAFromTheFront ==
    (pk.called /\ pk.out # NoMatch) =>
       LET act == ActiveEntries(pk.queue, pk.players)
           n == Len(act)
           topN == IF pk.opts.randomATopN < n THEN pk.opts.randomATopN ELSE n
           top == IF topN < 2 THEN 2 ELSE topN
       IN  /\ 2 <= top /\ top <= n
           /\ IF pk.opts.randomA
              THEN \E i \in 1..top : pk.out.aId = act[i]
              ELSE pk.out.aId = act[1]

\* randomA is on, three entries are active, topN is 2 and side A is the
\* second active entry
C19_Witness ==
    LET act == ActiveEntries(pk.queue, pk.players)
    IN  /\ pk.called /\ pk.out # NoMatch
        /\ pk.opts.randomA /\ pk.opts.randomATopN = RandomATopNMin
        /\ Len(act) >= 3
        /\ pk.out.aId = act[2] /\ act[1] # act[2] /\ act[3] # act[2]

\* ------------------------------------------------------- side B: notions
\* side A of the call pk holds: the first active entry of its queue
PkSideA == PlayerById(pk.players, ActiveEntries(pk.queue, pk.players)[1])

\* the ids of the candidates for side B
PkCandidates == Range(ActiveEntries(pk.queue, pk.players)) \ {PkSideA.id}

\* A's lookback window: its first recentOppCount recent opponents
PkWindow ==
    {PkSideA.lastOpponents[i] :
        i \in 1..Min(pk.opts.recentOppCount, Len(PkSideA.lastOpponents))}

PkReturned(mode) == pk.called /\ pk.out # NoMatch /\ pk.opts.mode = mode

\* ----------------------------------------------------------------- C13
\* C13, SpecScore: in RANDOM mode with avoidRecent on, side B is a candidate
\* outside A's lookback window whenever there is one; when every candidate is
\* inside the window, side B can be any candidate.
C13_RandomAvoidsRecent ==
    /\ (PkReturned("RANDOM") /\ pk.opts.avoidRecent) =>
          /\ pk.out.bId \in PkCandidates
          /\ (PkCandidates \ PkWindow # {}) => pk.out.bId \notin PkWindow
    /\ (~pk.called /\ pk.opts.mode = "RANDOM" /\ pk.opts.avoidRecent
        /\ PkCandidates \subseteq PkWindow) =>
          {m.bId : m \in pickMatchFromQueue(pk.queue, pk.players, pk.opts.mode,
                                            pk.opts.randomA, pk.opts.randomATopN,
                                            pk.opts.avoidRecent,
                                            pk.opts.recentOppCount, now)}
             = PkCandidates

\* A's history is [C], the lookback is 1, the candidates are B and C, and
\* side B is B
C13_Witness ==
    /\ PkReturned("RANDOM") /\ pk.opts.avoidRecent
    /\ pk.opts.recentOppCount = RecentOppCountMin
    /\ Len(PkSideA.lastOpponents) = 1
    /\ PkWindow \subseteq PkCandidates
    /\ Cardinality(PkCandidates) = 2
    /\ pk.out.bId \notin PkWindow

\* ----------------------------------------------------------------- C14
\* candidate o has variety terms at least as large as candidate c's
VarietyAtLeast(o, c) ==
    /\ roleMixScore(PkSideA, o) >= roleMixScore(PkSideA, c)
    /\ dpsVarietyScore(PkSideA, o) >= dpsVarietyScore(PkSideA, c)
    /\ weaponVarietyScore(PkSideA, o) >= weaponVarietyScore(PkSideA, c)

\* C14, SpecScore: in SMART mode with avoidRecent on, a candidate inside A's
\* lookback window is not selected when some candidate outside the window
\* has role, DPS-style and weapon variety terms at least as large, whatever
\* the random terms and the recency penalties.
C14_SmartAvoidsRecent ==
    (PkReturned("SMART") /\ pk.opts.avoidRecent /\ pk.out.bId \in PkWindow) =>
       \A o \in PkCandidates \ PkWindow :
          ~VarietyAtLeast(PlayerById(pk.players, o),
                          PlayerById(pk.players, pk.out.bId))

\* SMART passed over a candidate inside the window for one outside it that
\* has just played while the one inside has not
C14_Witness ==
    /\ PkReturned("SMART") /\ pk.opts.avoidRecent
    /\ pk.out.bId \notin PkWindow
    /\ RecencyOf(PlayerById(pk.players, pk.out.bId), now) > 0
    /\ \E c \in PkCandidates \cap PkWindow :
          /\ RecencyOf(PlayerById(pk.players, c), now) = 0
          /\ VarietyAtLeast(PlayerById(pk.players, pk.out.bId),
                            PlayerById(pk.players, c))
          /\ VarietyAtLeast(PlayerById(pk.players, c),
                            PlayerById(pk.players, pk.out.bId))

\* ----------------------------------------------------------------- C15
\* C15 (as claimed), SpecScore: in SMART mode with avoidRecent on, side B is
\* outside A's lookback window whenever some candidate is outside it,
\* whatever the roles, DPS styles and weapons.
C15_PenaltyDominates ==
    (PkReturned("SMART") /\ pk.opts.avoidRecent /\ PkCandidates \ PkWindow # {})
       => pk.out.bId \notin PkWindow

\* ----------------------------------------------------------------- C16
\* C16, SpecScore: in SMART mode, when avoidRecent is off or no candidate is
\* inside A's lookback window, side B has a role different from A's whenever
\* some candidate has, whatever the random terms and the recency penalties.
C16_RoleMixFirst ==
    (PkReturned("SMART")
     /\ (~pk.opts.avoidRecent \/ PkCandidates \cap PkWindow = {})
     /\ \E c \in PkCandidates : PlayerById(pk.players, c).role # PkSideA.role)
       => PlayerById(pk.players, pk.out.bId).role # PkSideA.role

\* side B has another role than A, has just played, and was preferred to a
\* DPS of the other style, with other weapons, that has not played
C16_Witness ==
    /\ PkReturned("SMART")
    /\ PkCandidates \cap PkWindow = {}
    /\ PlayerById(pk.players, pk.out.bId).role # PkSideA.role
    /\ RecencyOf(PlayerById(pk.players, pk.out.bId), now) > 0
    /\ \E c \in PkCandidates :
          /\ PlayerById(pk.players, c).role = PkSideA.role
          /\ dpsVarietyScore(PkSideA, PlayerById(pk.players, c)) = 3
          /\ RecencyOf(PlayerById(pk.players, c), now) = 0

\* ----------------------------------------------------------------- C17
\* the roster with every level back at the level of the form
Levelled(players) ==
    [i \in 1..Len(players) |-> [players[i] EXCEPT !.level = "MEDIO"]]

\* what nextMatch can draw in tab state s from roster players under options o
Drawable(s, players, o) ==
    pickMatchFromQueue(AvailableQueue(s), players, o.mode, o.randomA,
                       o.randomATopN, o.avoidRecent, o.recentOppCount, now)

\* C17, SpecLevel: in every state, under every setting of the options, the
\* matches pickMatchFromQueue can return over all its random draws are the
\* same for the roster as it is and for the roster with all levels equal, so
\* two rosters that differ in levels only give the same matches.
C17_LevelIgnored ==
    \A t \in OpenTabs : \A o \in OptionInputs :
       Drawable(tab[t], tab[t].players, o)
          = Drawable(tab[t], Levelled(tab[t].players), o)

\* a match was drawn among three players of which two have changed level,
\* to different levels
C17_Witness ==
    \E t \in OpenTabs :
       /\ last.op = "nextMatch" /\ last.t = t /\ last.done
       /\ Len(tab[t].players) >= 3
       /\ \E i, j \in 1..Len(tab[t].players) :
             /\ tab[t].players[i].level = "BAJO"
             /\ tab[t].players[j].level = "ALTO"

\* ----------------------------------------------------------------- C18
\* C18, Spec: nextMatch leaves the players (wins, losses, lastOpponents,
\* lastPlayedAt, active and all else), the queue and the results as they are;
\* it sets the current match to what was drawn and, when a match was drawn,
\* puts it at the end of screenMatches.
C18_SelectionFrame ==
    [][\A t \in TabIds :
          (HandlerStep("nextMatch") /\ last'.t = t) =>
             LET old == tab[t].screenMatches
                 new == tab'[t].screenMatches
             IN  /\ tab'[t].players = tab[t].players
                 /\ tab'[t].queue = tab[t].queue
                 /\ tab'[t].results = tab[t].results
                 /\ tab'[t].currentMatch = last'.m
                 /\ IF last'.done
                    THEN /\ new # <<>> /\ new[Len(new)] = last'.m
                         /\ SubSeq(new, 1, Len(new) - 1)
                               \in {old, SubSeq(old, 2, Len(old))}
                    ELSE new = old]_vars

\* a match was drawn among three players or more after a result that left
\* its marks on the players
C18_Witness ==
    \E t \in OpenTabs :
       /\ last.op = "nextMatch" /\ last.t = t /\ last.done
       /\ Len(tab[t].players) >= 3
       /\ tab[t].results # <<>>
       /\ \E i \in 1..Len(tab[t].players) : tab[t].players[i].lastPlayedAt # 0

\* ----------------------------------------------------------------- C20
\* C20, SpecHistory: a result of a match between W and L puts L at the head
\* of W's lastOpponents and W at the head of L's with the earlier entries in
\* order behind, the list never longer than 10; the other players stay as
\* they are; and over every step no player's wins or losses decrease.
C20_HistoryAndTotals ==
    [][\A t \in TabIds :
          /\ (HandlerStep("applyResultForMatch") /\ last'.t = t /\ last'.done) =>
                LET w == tab'[t].results[1].winnerId
                    l == tab'[t].results[1].loserId
                IN  /\ \A pair \in {<<w, l>>, <<l, w>>} :
                          LET old == PlayerById(tab[t].players, pair[1]).lastOpponents
                              new == PlayerById(tab'[t].players, pair[1]).lastOpponents
                          IN  /\ new # <<>> /\ new[1] = pair[2]
                              /\ Len(new) = Min(Len(old) + 1, HistoryCap)
                              /\ \A i \in 2..Len(new) : new[i] = old[i - 1]
                    /\ \A i \in 1..Len(tab[t].players) :
                          tab[t].players[i].id \notin {w, l} =>
                             tab'[t].players[i] = tab[t].players[i]
          /\ \A i \in 1..Len(tab'[t].players) :
                Len(tab'[t].players[i].lastOpponents) <= HistoryCap
          /\ \A id \in RosterIds(tab[t]) \cap RosterIds(tab'[t]) :
                /\ Wins(tab'[t], id) >= Wins(tab[t], id)
                /\ Losses(tab'[t], id) >= Losses(tab[t], id)]_vars

\* the winner of the last result has played more than 10 matches and its
\* lastOpponents holds 10
C20_Witness ==
    \E t \in OpenTabs :
       /\ last.op = "applyResultForMatch" /\ last.t = t /\ last.done
       /\ LET w == tab[t].results[1].winnerId
          IN  /\ Wins(tab[t], w) + Losses(tab[t], w) > HistoryCap
              /\ Len(PlayerById(tab[t].players, w).lastOpponents) = HistoryCap

\* ----------------------------------------------------------------- C21
NormalNick(p) == ToLowerCase(Trim(p.nick))

\* C21, SpecRoster: a call of addPlayer either leaves players and queue as
\* they were, or puts at the head of the roster one player whose trimmed,
\* lower-cased nick no player had, and its id at the end of the queue; and
\* in every state no two players of a roster have the same trimmed,
\* lower-cased nick.
C21_NicknamesUnique ==
    [][\A t \in TabIds :
          /\ (HandlerStep("addPlayer") /\ last'.t = t) =>
                LET s == tab[t]
                    s2 == tab'[t]
                IN  \/ s2.players = s.players /\ s2.queue = s.queue
                    \/ /\ s2.players = <<Head(s2.players)>> \o s.players
                       /\ s2.queue = Append(s.queue, Head(s2.players).id)
                       /\ \A i \in 1..Len(s.players) :
                             NormalNick(s.players[i]) # NormalNick(Head(s2.players))
          /\ \A i, j \in 1..Len(tab'[t].players) :
                i # j => NormalNick(tab'[t].players[i]) # NormalNick(tab'[t].players[j])]_vars

\* addPlayer has just refused the second entrant while the roster held the
\* first: the entrant was " A" and the roster holds "a"
C21_Witness ==
    \E t \in OpenTabs :
       /\ last.op = "addPlayer" /\ last.t = t /\ ~last.done
       /\ nextId = 2
       /\ Len(tab[t].players) = 1

\* ----------------------------------------------------------------- C22
\* C22, SpecRoster: in every state no player id appears more than once in
\* the queue.
C22_QueueWithoutRepeats ==
    \A t \in TabIds :
       \A i, j \in 1..Len(tab[t].queue) :
          i # j => tab[t].queue[i] # tab[t].queue[j]

\* a result has sent its two players to the end of a queue of three or more
\* and the roster has been edited since
C22_Witness ==
    \E t \in OpenTabs :
       /\ tab[t].results # <<>>
       /\ Len(tab[t].queue) >= 3
       /\ used.edits >= 1
       /\ last.op \in {"toggleActive", "rebuildQueueFromPlayers", "removePlayer"}

\* ----------------------------------------------------------------- C23
RosterIndex(players, id) == CHOOSE i \in 1..Len(players) : players[i].id = id

\* C23, SpecRoster: rebuildQueueFromPlayers leaves a queue that lists every
\* roster id once, the active players before the inactive ones and, within
\* each group, in roster order; players, results, screenMatches and the
\* current match are unchanged.
C23_RebuildFromRoster ==
    [][\A t \in TabIds :
          (HandlerStep("rebuildQueueFromPlayers") /\ last'.t = t) =>
             LET s == tab[t]
                 q == tab'[t].queue
                 on(id) == PlayerById(s.players, id).active
             IN  /\ Len(q) = Len(s.players)
                 /\ Range(q) = RosterIds(s)
                 /\ \A i, j \in 1..Len(q) :
                       i < j =>
                          \/ on(q[i]) /\ ~on(q[j])
                          \/ /\ on(q[i]) = on(q[j])
                             /\ RosterIndex(s.players, q[i]) < RosterIndex(s.players, q[j])
                 /\ tab'[t].players = s.players
                 /\ tab'[t].results = s.results
                 /\ tab'[t].screenMatches = s.screenMatches
                 /\ tab'[t].currentMatch = s.currentMatch]_vars

\* the queue was rebuilt from a roster in which an inactive player comes
\* before an active one, after a result had rotated the queue
C23_Witness ==
    \E t \in OpenTabs :
       /\ last.op = "rebuildQueueFromPlayers" /\ last.t = t
       /\ tab[t].results # <<>>
       /\ \E i, j \in 1..Len(tab[t].players) :
             i < j /\ ~tab[t].players[i].active /\ tab[t].players[j].active

\* ----------------------------------------------------------------- C24
\* the catalog of a damage style
Catalog(dpsType) ==
    CASE dpsType = "RANGED" -> DPS_RANGED_WEAPONS
      [] dpsType = "MELEE" -> DPS_MELEE_WEAPONS
      [] OTHER -> {}

\* C24, SpecForm: every player of the roster either has a role other than
\* DPS, no dpsType and the placeholder as both weapons, or has role DPS, a
\* dpsType and both weapons in the catalog of that dpsType.
C24_WeaponsFitTheRole ==
    \A t \in TabIds :
       \A i \in 1..Len(tab[t].players) :
          LET p == tab[t].players[i]
          IN  IF p.role # "DPS"
              THEN /\ p.dpsType = "null"
                   /\ p.weapon1 = Placeholder /\ p.weapon2 = Placeholder
              ELSE /\ p.dpsType \in DpsTypes
                   /\ {p.weapon1, p.weapon2} \subseteq Catalog(p.dpsType)

\* a ranged DPS with two different weapons was registered after a player that
\* is no DPS: role, dpsType and a weapon were changed since the form was reset
C24_Witness ==
    \E t \in OpenTabs :
       /\ last.op = "addPlayer" /\ last.t = t /\ last.done
       /\ Len(tab[t].players) = 2
       /\ tab[t].players[2].role # "DPS"
       /\ tab[t].players[1].role = "DPS"
       /\ tab[t].players[1].dpsType = "RANGED"
       /\ tab[t].players[1].weapon1 # tab[t].players[1].weapon2

\* ----------------------------------------------------------------- C25
\* tab state s shows what the snapshot holds
Mirrors(s) ==
    LET l == loadState(ls)
    IN  /\ s.players = l.players
        /\ s.results = l.results
        /\ s.queue = l.queue
        /\ s.screenMatches = l.screenMatches

AllDelivered == \A t \in OpenTabs : tab[t].syncIn = 0 /\ tab[t].storageIn = 0

MatchesOf(s, r) == {i \in 1..Len(s.bracket) : s.bracket[i].round = r}

FullMatchesOf(s, r) == {i \in MatchesOf(s, r) : s.bracket[i].b # 0}

ByesOf(s, r) == {i \in MatchesOf(s, r) : s.bracket[i].b = 0}

\* the players of round r
ParticipantsOf(s, r) ==
    UNION {{s.bracket[i].a, s.bracket[i].b} \ {0} : i \in MatchesOf(s, r)}

\* the players who won a match of round r that is not canceled
WinnersOf(s, r) ==
    {s.bracket[i].a : i \in {j \in MatchesOf(s, r) :
                                ~s.bracket[j].canceled /\ s.bracket[j].winner = "A"}}
    \cup {s.bracket[i].b : i \in {j \in MatchesOf(s, r) :
                                     ~s.bracket[j].canceled /\ s.bracket[j].winner = "B"}}

\* every match of round r has a winner or is canceled, and there is one
Decided(s, r) ==
    /\ MatchesOf(s, r) # {}
    /\ \A i \in MatchesOf(s, r) : s.bracket[i].canceled \/ s.bracket[i].winner # ""

NoneCanceled(s) == \A i \in 1..Len(s.bracket) : ~s.bracket[i].canceled

\* n halved k times, rounding up
RECURSIVE Halved(_, _)
Halved(n, k) == IF k = 0 THEN n ELSE Halved((n + 1) \div 2, k - 1)

\* ceil(log2 n) for n >= 1
CeilLog2(n) == CHOOSE k \in 0..n : Halved(n, k) = 1 /\ \A j \in 0..(k - 1) : Halved(n, j) > 1

\* ----------------------------------------------------------------- C26
\* C26, SpecCup: in a bracket of n >= 2 participants with no canceled match,
\* round r has ceil(n / 2^(r-1)) participants, the round number never
\* exceeds ceil(log2 n), a call of buildNextRound with byes allowed on a
\* decided round either opens the next round or reports the end, and the end
\* is reported in round ceil(log2 n) with exactly one winner.
C26_EndsAfterLogRounds ==
    [][LET s == tp'
           n == Cardinality(s.selected)
       IN  (s.bracket # <<>> /\ NoneCanceled(s)) =>
              /\ n >= 2
              /\ \A r \in 1..s.round :
                    Cardinality(ParticipantsOf(s, r)) = Halved(n, r - 1)
              /\ s.round <= CeilLog2(n)
              /\ (HandlerStep("buildNextRound") /\ Decided(tp, tp.round) /\ tp.allowBye) =>
                    \/ s.round = tp.round + 1 /\ s.msg = "null"
                    \/ s.round = tp.round /\ s.msg = "done"
              /\ s.msg = "done" =>
                    /\ s.round = CeilLog2(n)
                    /\ Cardinality(WinnersOf(s, s.round)) = 1]_vars

\* the end of a tournament of five was reported: three rounds, no match
\* canceled
C26_Witness ==
    /\ last.op = "buildNextRound"
    /\ tp.msg = "done"
    /\ Cardinality(tp.selected) = MaxContestants
    /\ NoneCanceled(tp)
    /\ tp.round = 3

\* ----------------------------------------------------------------- C27
\* the matches of round r are full full matches and byes byes, each bye won
\* by its side A
Shaped(s, r, full, byes) ==
    /\ Cardinality(FullMatchesOf(s, r)) = full
    /\ Cardinality(ByesOf(s, r)) = byes
    /\ \A i \in ByesOf(s, r) : s.bracket[i].winner = "A"

\* buildNextRound, called on round r decided with winners, reports the end
\* and leaves bracket and round as they were
EndsIn(r) ==
    (HandlerStep("buildNextRound") /\ tp.round = r /\ Decided(tp, r)
                                  /\ NoneCanceled(tp)) =>
       /\ tp'.msg = "done"
       /\ tp'.bracket = tp.bracket
       /\ tp'.round = tp.round

\* C27 (as claimed), SpecCup: with 5 participants and byes allowed round 1
\* has 2 full matches and 1 bye; round 2 has exactly 2 participants in 1
\* match; buildNextRound on round 2 decided reports the tournament complete.
C27_FiveInTwoRounds ==
    [][(Cardinality(tp.selected) = 5 /\ tp'.bracket # <<>> /\ NoneCanceled(tp')) =>
          /\ Shaped(tp', 1, 2, 1)
          /\ tp'.round >= 2 =>
                /\ Cardinality(ParticipantsOf(tp', 2)) = 2
                /\ Shaped(tp', 2, 1, 0)
          /\ EndsIn(2)]_vars

\* C27 (amended), SpecCup: with 5 participants and byes allowed round 1 has
\* 2 full matches and 1 bye; round 2 has the 3 winners of round 1 (the bye
\* winner and both match winners) in 1 match and 1 bye; round 3 has the 2
\* winners of round 2 in 1 match; buildNextRound on round 3 decided reports
\* the tournament complete.
C27_FiveInThreeRounds ==
    [][(Cardinality(tp.selected) = 5 /\ tp'.bracket # <<>> /\ NoneCanceled(tp')) =>
          /\ Shaped(tp', 1, 2, 1)
          /\ tp'.round >= 2 =>
                /\ Cardinality(ParticipantsOf(tp', 2)) = 3
                /\ ParticipantsOf(tp', 2) = WinnersOf(tp', 1)
                /\ Shaped(tp', 2, 1, 1)
          /\ tp'.round >= 3 =>
                /\ Cardinality(ParticipantsOf(tp', 3)) = 2
                /\ ParticipantsOf(tp', 3) = WinnersOf(tp', 2)
                /\ Shaped(tp', 3, 1, 0)
          /\ tp'.round <= 3
          /\ EndsIn(3)]_vars

\* five participants: buildNextRound has just reported the end on round 3,
\* whose one match is decided
C27_Witness ==
    /\ last.op = "buildNextRound"
    /\ tp.msg = "done"
    /\ Cardinality(tp.selected) = 5
    /\ NoneCanceled(tp)
    /\ tp.round = 3
    /\ Cardinality(FullMatchesOf(tp, 3)) = 1

\* ----------------------------------------------------------------- C28
\* the sides taken in round r: two for a full match, one for a bye
SlotsOf(s, r) == 2 * Cardinality(FullMatchesOf(s, r)) + Cardinality(ByesOf(s, r))

\* C28, SpecCup: a call of buildNextRound on a round in which some match has
\* neither a winner nor the canceled mark reports not-ready and leaves bracket
\* and round as they were; a call that changes bracket or round was made on a
\* decided round, adds 1 to the round number and appends matches of the new
\* round only, whose participants are exactly the winners of the round left,
\* each once, canceled matches giving none.
C28_NextRoundFromWinners ==
    [][HandlerStep("buildNextRound") =>
          /\ ~Decided(tp, tp.round) =>
                /\ tp'.msg = "notReady"
                /\ tp'.bracket = tp.bracket
                /\ tp'.round = tp.round
          /\ (tp'.bracket # tp.bracket \/ tp'.round # tp.round) =>
                /\ Decided(tp, tp.round)
                /\ tp'.round = tp.round + 1
                /\ Len(tp'.bracket) > Len(tp.bracket)
                /\ SubSeq(tp'.bracket, 1, Len(tp.bracket)) = tp.bracket
                /\ \A i \in (Len(tp.bracket) + 1)..Len(tp'.bracket) :
                      tp'.bracket[i].round = tp'.round
                /\ ParticipantsOf(tp', tp'.round) = WinnersOf(tp, tp.round)
                /\ SlotsOf(tp', tp'.round) = Cardinality(WinnersOf(tp, tp.round))]_vars

\* round 2 was built from a round 1 of three matches one of which is
\* canceled
C28_Witness ==
    /\ last.op = "buildNextRound" /\ last.done
    /\ tp.round = 2
    /\ Cardinality(MatchesOf(tp, 1)) = 3
    /\ \E i \in MatchesOf(tp, 1) : tp.bracket[i].canceled
    /\ Cardinality(ParticipantsOf(tp, 2)) = 2

\* ----------------------------------------------------------------- C29
Odd(k) == k % 2 = 1

\* C29, SpecCup: generateRound1 with fewer than 2 players selected, or with
\* an odd number selected while byes are off, and buildNextRound on a decided
\* round with an odd number of winners, 3 or more, while byes are off, each
\* report their error and leave bracket and round as they were.
C29_RefusalsChangeNothing ==
    [][LET n == Cardinality(tp.selected)
           w == Cardinality(WinnersOf(tp, tp.round))
           same == tp'.bracket = tp.bracket /\ tp'.round = tp.round
       IN  /\ (HandlerStep("generateRound1") /\ n < 2) =>
                 tp'.msg = "few" /\ same
           /\ (HandlerStep("generateRound1") /\ n >= 2 /\ Odd(n) /\ ~tp.allowBye) =>
                 tp'.msg = "odd" /\ same
           /\ (HandlerStep("buildNextRound") /\ Decided(tp, tp.round)
                  /\ w >= 2 /\ Odd(w) /\ ~tp.allowBye) =>
                 tp'.msg = "oddNext" /\ same]_vars

\* buildNextRound has just refused to pair the three winners of round 1
C29_Witness ==
    /\ last.op = "buildNextRound" /\ ~last.done
    /\ tp.msg = "oddNext"
    /\ ~tp.allowBye
    /\ tp.round = 1
    /\ Cardinality(WinnersOf(tp, 1)) = 3

\* ----------------------------------------------------------------- C30
\* the round s is in is decided and has at most one winner
Over(s) == Decided(s, s.round) /\ Cardinality(WinnersOf(s, s.round)) <= 1

\* C30, SpecBracket: a call of buildNextRound on a decided round with one
\* winner or none reports the tournament complete and leaves bracket and
\* round as they were, so that the round is still decided with one winner or
\* none for the next call.
C30_CompleteIsStable ==
    [][(HandlerStep("buildNextRound") /\ Over(tp)) =>
          /\ tp'.msg = "done"
          /\ tp'.bracket = tp.bracket
          /\ tp'.round = tp.round
          /\ Over(tp')]_vars

\* the end was reported on a round without a winner: its matches are
\* canceled
C30_Witness ==
    /\ last.op = "buildNextRound"
    /\ tp.msg = "done"
    /\ tp.bracket # <<>>
    /\ WinnersOf(tp, tp.round) = {}

\* ---- C31
\* A bye never becomes a fight.  Every match of the bracket with an empty
\* side B has a side A, and while setResult was not called for it it has
\* winner "A" and is not canceled; the match setResult hands to
\* saveFightToDB has two players, and so has the match of every fight that
\* saveFightToDB inserts.
ByeCreated(m) == m.b = 0 /\ m.a # 0 /\ m.winner = "A" /\ ~m.canceled

C31_ByeIsNoFight ==
    [][/\ \A i \in 1..Len(tp'.bracket) :
             (i > Len(tp.bracket) \/ tp'.bracket[i].id # tp.bracket[i].id
                \/ last'.op = "generateRound1")
             /\ tp'.bracket[i].b = 0
             /\ last'.done
             => ByeCreated(tp'.bracket[i])
       /\ \A i \in 1..Len(tp'.bracket) : tp'.bracket[i].a # 0
       /\ tp'.saving # NoSave => tp'.saving.a # 0 /\ tp'.saving.b # 0
       /\ last'.op = "saveFightToDB" /\ last'.done
             => tp.saving.a # 0 /\ tp.saving.b # 0]_vars

\* setResult was called for a bye and nothing is being written
C31_Witness ==
    /\ last.op = "setResult"
    /\ last.done
    /\ tp.saving = NoSave
    /\ \E i \in 1..Len(tp.bracket) :
          tp.bracket[i].b = 0 /\ ~ByeCreated(tp.bracket[i])

\* ---- C32
\* C32 (as claimed), SpecTabsFair: once two tabs are open, the exchange of
\* notifications stops: a state is reached in which no open tab has a SYNC
\* message or a storage event left to take, that is, in which no save and no
\* emitSync of another tab is still to be answered.
C32_SyncExchangeStops == [](OpenTabs = TabIds => <>AllDelivered)

\* ---- C33
\* C33 (as claimed): the double-click guard blocks no match for good.  The
\* guard is set only by a call that leaves a result with the same createdAt
\* in results, so that the effect of lines 411-415 resets it in the render of
\* that call: between two events resolvingMatchAt is null.  So every match
\* shown in a tab (an entry of screenMatches whose two players are in the
\* roster) that has no result of its own can be resolved: its buttons are not
\* disabled (lines 898 and 932: no result carries its createdAt and the guard
\* does not name it) and a click records its result.
Shown(s) ==
    {m \in Range(s.screenMatches) :
        HasPlayer(s.players, m.aId) /\ HasPlayer(s.players, m.bId)}

C33_GuardNeverBlocksForGood ==
    \A t \in OpenTabs :
       /\ tab[t].resolvingMatchAt = 0
       /\ \A m \in Shown(tab[t]) :
             (\A i \in 1..Len(tab[t].results) : tab[t].results[i].match # m)
             => /\ ~AlreadyResolved(tab[t].results, m)
                /\ tab[t].resolvingMatchAt # m.createdAt

\* ---- C34
\* C34, SpecScreen: screenMatches never holds more than ScreenCap matches.
\* When nextMatch proposes a match while ScreenCap matches without result
\* are on the screen, the oldest of them leaves screenMatches, results,
\* players and queue stay as they were, and its two players are no longer
\* set aside by the next draw: they are in the queue nextMatch draws from.
C34_OldestLeavesTheScreen ==
    [][\A t \in OpenTabs :
          /\ Len(tab'[t].screenMatches) <= ScreenCap
          /\ (HandlerStep("nextMatch") /\ last'.t = t /\ last'.done
              /\ Cardinality(InFlight(tab[t])) = ScreenCap)
             => LET s == tab[t]
                    s2 == tab'[t]
                    oldest == s.screenMatches[1]
                IN  /\ oldest \notin Range(s2.screenMatches)
                    /\ s2.screenMatches = Tail(s.screenMatches) \o <<last'.m>>
                    /\ s2.results = s.results
                    /\ s2.players = s.players
                    /\ s2.queue = s.queue
                    /\ {oldest.aId, oldest.bId} \cap Busy(s2) = {}
                    /\ {oldest.aId, oldest.bId} \subseteq Range(AvailableQueue(s2))]_vars

\* a fifth match has been proposed while four were waiting for their result
C34_Witness ==
    /\ last.op = "nextMatch"
    /\ last.done
    /\ tab[1].results = <<>>
    /\ Cardinality(InFlight(tab[1])) = ScreenCap
    /\ tab[1].screenMatches[1] = [aId |-> 3, bId |-> 4, createdAt |-> 1]

\* ---- C35
\* C35 (as claimed): every match nextMatch puts in flight has a createdAt
\* that no match already on the screen and no match with a result has: the
\* createdAt alone tells the matches apart.
C35_CreatedAtIdentifies ==
    [][\A t \in OpenTabs :
          (HandlerStep("nextMatch") /\ last'.t = t /\ last'.done)
          => \A m \in Range(tab[t].screenMatches)
                        \cup {tab[t].results[i].match : i \in 1..Len(tab[t].results)} :
                m.createdAt # last'.m.createdAt]_vars

\* ---- C36
\* C36, SpecTotals: in one tab, whatever addPlayer, toggleActive,
\* rebuildQueueFromPlayers, nextMatch, resetMatch, applyResultForMatch and
\* resetAll have done, the wins of all players add up to the number of
\* results, and so do their losses.
RECURSIVE Total(_, _)
Total(players, field) ==
    IF players = <<>> THEN 0
    ELSE Head(players)[field] + Total(Tail(players), field)

C36_WinsLossesResults ==
    \A t \in OpenTabs :
       /\ Total(tab[t].players, "wins") = Len(tab[t].results)
       /\ Total(tab[t].players, "losses") = Len(tab[t].results)

\* two results are recorded, and a player has won one match and lost one
C36_Witness ==
    /\ Len(tab[1].results) >= 2
    /\ \E i \in 1..Len(tab[1].players) :
          tab[1].players[i].wins >= 1 /\ tab[1].players[i].losses >= 1

\* ---- C37
\* C37, SpecRoster: in one tab, result buttons being shown only for matches
\* whose two players are in the roster, the ids in the queue are the ids of
\* the roster; toggleActive leaves the queue as it is, and removePlayer
\* takes the player's id, and nothing else, out of it.
C37_QueueHoldsTheRoster ==
    [][\A t \in OpenTabs :
          LET s == tab[t]
              s2 == tab'[t]
          IN  /\ Range(s2.queue) = RosterIds(s2)
              /\ (HandlerStep("toggleActive") /\ last'.t = t)
                 => s2.queue = s.queue
              /\ (HandlerStep("removePlayer") /\ last'.t = t)
                 => /\ s2.queue = SelectSeq(s.queue, LAMBDA q : q # last'.id)
                    /\ last'.id \notin Range(s2.queue)]_vars

\* a player has been removed, another one is inactive and still queued
\* before an active one, and a result has been recorded
C37_Witness ==
    /\ Len(tab[1].players) < nextId - 1
    /\ tab[1].results # <<>>
    /\ \E i \in 1..Len(tab[1].queue) :
          /\ ~PlayerById(tab[1].players, tab[1].queue[i]).active
          /\ i < Len(tab[1].queue)

\* ---- C38
\* C38, SpecCup: in every bracket the page can show, no player is in two
\* matches of the same round, the two sides of a match are different, a
\* round has at most one bye, and every player of a round after the first
\* is the recorded winner of a match of the round before that is not
\* canceled.
C38_BracketWellFormed ==
    \A i \in 1..Len(tp.bracket) :
       LET m == tp.bracket[i]
       IN  /\ m.a # m.b
           /\ m.a # 0
           /\ \A j \in MatchesOf(tp, m.round) :
                 j # i => ({m.a, m.b} \cap {tp.bracket[j].a, tp.bracket[j].b}) \ {0} = {}
           /\ Cardinality(ByesOf(tp, m.round)) <= 1
           /\ m.round > 1 => ({m.a, m.b} \ {0}) \subseteq WinnersOf(tp, m.round - 1)

\* the final is open, after a first and a second round with a bye each
C38_Witness ==
    /\ tp.round = 3
    /\ MatchesOf(tp, 3) # {}
    /\ ByesOf(tp, 1) # {}
    /\ ByesOf(tp, 2) # {}

\* ---- C39, C40: the fight-registration form
\* the slots of rows as <<row, side>>, the id in a slot (0 where the row
\* does not exist), and the slots that are filled
FormSlots == (1..RowCap) \X {"a", "b"}

SlotId(rows, s) == IF s[1] <= Len(rows) THEN rows[s[1]][s[2]] ELSE 0

Filled(rows) == {s \in FormSlots : SlotId(rows, s) # 0}

\* no player is in two slots of rows
OncePerPlayer(rows) ==
    \A s, t \in Filled(rows) : SlotId(rows, s) = SlotId(rows, t) => s = t

\* the players of the page that are in no slot of rows
Unused(rows) ==
    Range(nf.players) \ {SlotId(rows, s) : s \in Filled(rows)}

\* a step that is one call of autoFill
AutoFillStep == last'.op = "autoFill" /\ last' # last

\* C39: the form never holds more than RowCap rows, whatever addMatch,
\* removeMatch, setMatch and autoFill did.  A call of autoFill keeps every
\* slot that was filled, puts in the slots that were empty only players
\* that were in no slot, each in one slot, so that a form with no player in
\* two slots stays so, and with fewer than 2 unused players it leaves the
\* rows as they were.
C39_FormRowsAndAutoFillSlots ==
    [][/\ Len(nf.matches) <= RowCap
       /\ Len(nf'.matches) <= RowCap
       /\ AutoFillStep =>
            LET prev == nf.matches
                next == nf'.matches
                fresh == Filled(next) \ Filled(prev)
            IN  /\ \A s \in Filled(prev) : SlotId(next, s) = SlotId(prev, s)
                /\ \A s \in fresh :
                      /\ SlotId(next, s) \in Unused(prev)
                      /\ \A t \in Filled(next) :
                            SlotId(next, t) = SlotId(next, s) => t = s
                /\ OncePerPlayer(prev) => OncePerPlayer(next)
                /\ Cardinality(Unused(prev)) < 2 => next = prev]_vars

\* autoFill had completed a row whose one player had been picked by hand
\* and left a row empty for want of players; called again with no unused
\* player, it has left the RowCap rows as they were
C39_Witness ==
    /\ last.op = "autoFill"
    /\ ~last.done
    /\ nf.msg = "fewAvailable"
    /\ Unused(nf.matches) = {}
    /\ Len(nf.matches) = RowCap
    /\ nf.matches[1].a = 2
    /\ nf.matches[1].b # 0
    /\ nf.matches[2].a # 0
    /\ nf.matches[RowCap] = EmptyRow
    /\ used.edits > 0

\* A call of autoFill seen from the rows before and after it.  The rows it
\* completed; in such a row the fixed player (the one that was there, or
\* the one put on side a of an empty row) and the opponent picked for it;
\* the pool that remained when the opponent was picked; the unordered pairs
\* of today and those the call had produced in the rows above.
RowComplete(rows, i) == SlotId(rows, <<i, "a">>) # 0 /\ SlotId(rows, <<i, "b">>) # 0

CompletedRows(prev, next) ==
    {i \in 1..RowCap : ~RowComplete(prev, i) /\ RowComplete(next, i)}

FixedSide(prev, i) ==
    IF SlotId(prev, <<i, "a">>) # 0 THEN "a"
    ELSE IF SlotId(prev, <<i, "b">>) # 0 THEN "b" ELSE "a"

FixedOf(prev, next, i) == next[i][FixedSide(prev, i)]

OpponentOf(prev, next, i) ==
    next[i][IF FixedSide(prev, i) = "a" THEN "b" ELSE "a"]

RemainingPool(prev, next, i) ==
    (Unused(prev)
       \ {SlotId(next, s) : s \in {t \in Filled(next) \ Filled(prev) : t[1] < i}})
       \ {FixedOf(prev, next, i)}

TodayPairs == {{k[1], k[2]} : k \in nf.recentPairKeys}

ProducedAbove(prev, next, i) ==
    {{next[j].a, next[j].b} : j \in {h \in CompletedRows(prev, next) : h < i}}

\* C40: in every row a call of autoFill completes, the opponent makes with
\* the fixed player a pair of today, or one the call has already produced,
\* only when every player left in the pool would; and pairKey gives the
\* same key for both orders of its arguments.
C40_AutoFillAvoidsRepeats ==
    [][/\ \A a, b \in 0..MaxFighters : pairKey(a, b) = pairKey(b, a)
       /\ AutoFillStep =>
            LET prev == nf.matches
                next == nf'.matches
            IN  \A i \in CompletedRows(prev, next) :
                   LET fixedId == FixedOf(prev, next, i)
                       repeats == TodayPairs \cup ProducedAbove(prev, next, i)
                   IN  {fixedId, OpponentOf(prev, next, i)} \in repeats
                          => \A c \in RemainingPool(prev, next, i) :
                                {fixedId, c} \in repeats]_vars

\* player 2, picked by hand, fought player 1 today and autoFill has given
\* it another opponent; the two players left, who fought today, are paired
\* in the next row for want of anyone else
C40_Witness ==
    /\ last.op = "autoFill"
    /\ last.done
    /\ used.edits = 1
    /\ Len(nf.matches) = RowCap
    /\ nf.matches[1].a = 2
    /\ pairKey(2, 1) \in nf.recentPairKeys
    /\ nf.matches[1].b \notin {0, 1}
    /\ pairKey(2, nf.matches[1].b) \notin nf.recentPairKeys
    /\ RowComplete(nf.matches, 2)
    /\ pairKey(nf.matches[2].a, nf.matches[2].b) \in nf.recentPairKeys

====
